---------------------------- MODULE Spec2Model ----------------------------
(***************************************************************************)
(* A model of the three InheritX Soroban contracts:                        *)
(*   contracts/inheritance-contract  (the Inheritance Vault)               *)
(*   contracts/lending-contract      (the Lending Pool)                    *)
(*   contracts/borrowing-contract    (the Borrowing Vault)                 *)
(* Every entry point is an operator that maps the contract's storage (a    *)
(* record "w") and the call's arguments to a result and the storage it     *)
(* had written when it returned.  An action applies one entry point and    *)
(* commits what the host commits: the writes of an invocation that         *)
(* returned Ok, nothing of one that returned an error or trapped.          *)
(***************************************************************************)
EXTENDS Integers, Sequences, FiniteSets, TLC

VARIABLES
    admin,        \* DataKey::Admin (instance), NoAddr while unset
    nextPlanId,   \* DataKey::NextPlanId, read with unwrap_or(1)
    plans,        \* DataKey::Plan(u64) -> InheritancePlan
    userPlans,    \* DataKey::UserPlans(Address) -> Vec<u64>
    claims,       \* DataKey::Claim(BytesN<32>) -> ClaimRecord
    triggers,     \* DataKey::InheritanceTrigger(u64) -> InheritanceTriggerInfo
    claimedPlans, \* DataKey::UserClaimedPlans(Address) and DataKey::AllClaimedPlans
    deactivated,  \* DataKey::DeactivatedPlans -> Vec<u64>
    kyc,          \* DataKey::Kyc(Address) -> KycStatus
    balances,     \* the token contract's balance of every address
    now,          \* env.ledger().timestamp()
    last,         \* the last invocation: entry point and result
    \* Borrowing Vault
    bInstance,    \* instance storage: Admin, CollateralRatio, LiquidationThreshold,
                  \* LiquidationBonus, GlobalPause (a key is absent until set)
    bWhitelist,   \* DataKey::WhitelistedCollateral(Address) -> bool
    bVaultPause,  \* DataKey::VaultPause(Address) -> bool
    loanCounter,  \* DataKey::LoanCounter, absent (-1) until the first loan
    loans,        \* DataKey::Loan(u64) -> Loan
    collateral,   \* the collateral token's balance of every address
    bLast,        \* the last invocation of the Borrowing Vault
    \* Lending Pool
    lInstance,    \* instance storage: Admin, Token, CollateralRatio, Pool, NextLoanId
    shares,       \* DataKey::Shares(Address) -> u64
    loanOf,       \* DataKey::Loan(Address) -> LoanRecord
    loanById,     \* DataKey::LoanById(u64) -> LoanRecord
    lWhitelist,   \* DataKey::WhitelistedCollateral(Address) -> bool
    poolToken,    \* the pool token's balance of every address
    poolColl,     \* the collateral token's balance of every address
    lLast         \* the last invocation of the Lending Pool

vaultVars == <<admin, nextPlanId, plans, userPlans, claims, triggers,
               claimedPlans, deactivated, kyc, balances, now, last>>

borrowVars == <<bInstance, bWhitelist, bVaultPause, loanCounter, loans, collateral, bLast>>

lendVars == <<lInstance, shares, loanOf, loanById, lWhitelist, poolToken, poolColl, lLast>>

vars == <<vaultVars, borrowVars, lendVars>>

-----------------------------------------------------------------------------
(* Principals *)
NoAddr       == "none"
AdminAddr    == "admin"
OwnerAddr    == "owner"
OtherAddr    == "other"
VaultAddr    == "vault"      \* env.current_contract_address()
Addresses    == {AdminAddr, OwnerAddr, OtherAddr, VaultAddr}

Ok(w)      == [res |-> "Ok", w |-> w]
Err(w, e)  == [res |-> e, w |-> w]

SaturatingSub(a, b) == IF a >= b THEN a - b ELSE 0

-----------------------------------------------------------------------------
(* Hashing.  sha256 is taken to be injective on the byte strings of the     *)
(* model: a digest is the tagged preimage.                                  *)
Sha256(bytes) == <<"sha256", bytes>>

\* hash_string pushes the INDEX of each character, (i % 256), not the character
hash_string(input) == Sha256([i \in 1..Len(input) |-> (i - 1) % 256])

Pow10(n) == IF n = 0 THEN 1 ELSE IF n = 1 THEN 10 ELSE IF n = 2 THEN 100
            ELSE IF n = 3 THEN 1000 ELSE IF n = 4 THEN 10000 ELSE 100000

\* hash_claim_code: Err above 999999, else sha256 of the six ASCII digits
hash_claim_code(claim_code) ==
    IF claim_code > 999999
    THEN [ok |-> FALSE, hash |-> <<>>]
    ELSE [ok |-> TRUE,
          hash |-> Sha256([i \in 1..6 |-> ((claim_code \div Pow10(6 - i)) % 10) + 48])]

\* the composite claim key: sha256(plan_id.to_be_bytes() ++ hashed_email)
claim_key(plan_id, hashed_email) == Sha256(<<plan_id, hashed_email>>)

-----------------------------------------------------------------------------
(* The token contract: transfer(from, to, amount) moves amount or fails.    *)
(* "refused" is the token (or the host) rejecting the call for a reason of  *)
(* its own; try_invoke_contract turns both failures into an Err.            *)
token_transfer(bal, from, to, amount, refused) ==
    IF refused \/ amount < 0 \/ bal[from] < amount
    THEN [ok |-> FALSE, bal |-> bal]
    ELSE [ok |-> TRUE,
          bal |-> IF from = to THEN bal
                  ELSE [bal EXCEPT ![from] = @ - amount, ![to] = @ + amount]]

-----------------------------------------------------------------------------
(* Inheritance Vault: helpers *)

CREATION_FEE_BP == 200

MonthSecs   == 30 * 24 * 60 * 60
QuarterSecs == 90 * 24 * 60 * 60
YearSecs    == 365 * 24 * 60 * 60

Methods == {"LumpSum", "Monthly", "Quarterly", "Yearly"}

Publish(w, ev) == [w EXCEPT !.events = Append(@, ev)]

get_plan(w, plan_id) == plan_id \in DOMAIN w.plans
get_trigger_info(w, plan_id) == plan_id \in DOMAIN w.triggers

\* require_admin as it would be if it only looked for a stored admin
require_admin_if_set(w, a) ==
    IF w.admin = NoAddr THEN "AdminNotSet" ELSE "Ok"

\* require_admin: AdminNotSet when no admin is stored, NotAdmin on a mismatch
require_admin(w, a) ==
    IF w.admin = NoAddr THEN "AdminNotSet"
    ELSE IF w.admin # a THEN "NotAdmin"
    ELSE "Ok"

initialize_admin(w, a) ==
    IF w.admin # NoAddr THEN Err(w, "AdminAlreadyInitialized")
    ELSE Ok([w EXCEPT !.admin = a])

\* create_beneficiary: the validation and the hashing of one beneficiary
create_beneficiary(b) ==
    IF Len(b.name) = 0 \/ Len(b.email) = 0 \/ Len(b.bank_account) = 0
    THEN [res |-> "InvalidBeneficiaryData"]
    ELSE IF b.allocation_bp = 0
    THEN [res |-> "InvalidAllocation"]
    ELSE IF ~hash_claim_code(b.claim_code).ok
    THEN [res |-> "InvalidClaimCodeRange"]
    ELSE [res |-> "Ok",
          b |-> [hashed_full_name  |-> hash_string(b.name),
                 hashed_email      |-> hash_string(b.email),
                 hashed_claim_code |-> hash_claim_code(b.claim_code).hash,
                 bank_account      |-> b.bank_account,
                 allocation_bp     |-> b.allocation_bp]]

validate_plan_inputs(plan_name, description_len, asset_type, total_amount) ==
    IF Len(plan_name) = 0 THEN "MissingRequiredField"
    ELSE IF description_len > 500 THEN "DescriptionTooLong"
    ELSE IF asset_type # "USDC" THEN "InvalidAssetType"
    ELSE IF total_amount = 0 THEN "InvalidTotalAmount"
    ELSE "Ok"

RECURSIVE SumAllocation(_)
SumAllocation(bs) ==
    IF bs = <<>> THEN 0 ELSE Head(bs).allocation_bp + SumAllocation(Tail(bs))

validate_beneficiaries(beneficiaries_data) ==
    IF Len(beneficiaries_data) > 10 THEN "TooManyBeneficiaries"
    ELSE IF Len(beneficiaries_data) = 0 THEN "MissingRequiredField"
    ELSE IF SumAllocation(beneficiaries_data) # 10000 THEN "AllocationPercentageMismatch"
    ELSE "Ok"

\* the loop of create_inheritance_plan over beneficiaries_data: the first
\* error ends it, else the hashed beneficiaries in order
RECURSIVE create_beneficiaries(_)
create_beneficiaries(data) ==
    IF data = <<>> THEN [res |-> "Ok", bs |-> <<>>]
    ELSE LET one == create_beneficiary(Head(data)) IN
         IF one.res # "Ok" THEN [res |-> one.res, bs |-> <<>>]
         ELSE LET rest == create_beneficiaries(Tail(data)) IN
              IF rest.res # "Ok" THEN rest
              ELSE [res |-> "Ok", bs |-> <<one.b>> \o rest.bs]

\* The largest u64.  The integers of the model end at 2^31 - 1, so an amount
\* of the model counts units of 2^33 of the token's smallest unit wherever the
\* end of the type matters: k units fit in 64 bits exactly when k <= 2^31 - 1.
U64_MAX == 2147483647

\* u64::checked_mul: None when the product leaves the type
checked_mul(a, b) ==
    IF b # 0 /\ a > U64_MAX \div b THEN [some |-> FALSE, v |-> 0]
    ELSE [some |-> TRUE, v |-> a * b]

\* the fee as it would be with the basis points taken per thousand
creation_fee_per_thousand(total_amount) ==
    LET v == checked_mul(total_amount, CREATION_FEE_BP) IN
    IF v.some THEN v.v \div 1000 ELSE 0

\* fee = total_amount.checked_mul(200).and_then(|v| v.checked_div(10000)).unwrap_or(0)
creation_fee(total_amount) ==
    LET v == checked_mul(total_amount, CREATION_FEE_BP) IN
    IF v.some THEN v.v \div 10000 ELSE 0

increment_plan_id(w) == [w EXCEPT !.nextPlanId = @ + 1]

SetAt(f, k, v) == [x \in DOMAIN f \cup {k} |-> IF x = k THEN v ELSE f[x]]

store_plan(w, plan_id, plan) == [w EXCEPT !.plans = SetAt(@, plan_id, plan)]

add_plan_to_user(w, owner, plan_id) ==
    [w EXCEPT !.userPlans[owner] = Append(@, plan_id)]

InSeq(x, s) == \E i \in 1..Len(s) : s[i] = x

add_plan_to_deactivated(w, plan_id) ==
    IF InSeq(plan_id, w.deactivated) THEN w
    ELSE [w EXCEPT !.deactivated = Append(@, plan_id)]

add_plan_to_claimed(w, owner, plan_id) ==
    LET u == IF InSeq(plan_id, w.claimedPlans.user[owner]) THEN w.claimedPlans.user[owner]
             ELSE Append(w.claimedPlans.user[owner], plan_id)
        a == IF InSeq(plan_id, w.claimedPlans.all) THEN w.claimedPlans.all
             ELSE Append(w.claimedPlans.all, plan_id)
    IN [w EXCEPT !.claimedPlans = [user |-> [@.user EXCEPT ![owner] = u], all |-> a]]

-----------------------------------------------------------------------------
(* Inheritance Vault: entry points.  Each returns the result and the       *)
(* storage as written at the point of return.                              *)

\* p: [owner, plan_name, description_len, total_amount, distribution_method,
\*     beneficiaries_data, is_lendable]; refused: the transfers (1 the fee,
\*     2 the net amount) the token refuses
create_inheritance_plan(w, p, refused) ==
    IF w.admin = NoAddr THEN Err(w, "AdminNotSet")
    ELSE
    LET fee == creation_fee(p.total_amount) IN
    IF p.total_amount < fee THEN Err(w, "InvalidTotalAmount")
    ELSE
    LET net_amount == p.total_amount - fee IN
    IF net_amount = 0 THEN Err(w, "InvalidTotalAmount")
    ELSE
    LET v == validate_plan_inputs(p.plan_name, p.description_len, "USDC", p.total_amount) IN
    IF v # "Ok" THEN Err(w, v)
    ELSE IF w.balances[p.owner] < p.total_amount THEN Err(w, "InsufficientBalance")
    ELSE
    LET t1 == IF fee > 0
              THEN token_transfer(w.balances, p.owner, w.admin, fee, 1 \in refused)
              ELSE [ok |-> TRUE, bal |-> w.balances]
    IN
    IF ~t1.ok THEN Err(w, "FeeTransferFailed")
    ELSE
    LET t2 == token_transfer(t1.bal, p.owner, VaultAddr, net_amount, 2 \in refused)
        w1 == [w EXCEPT !.balances = t2.bal]
    IN
    IF ~t2.ok THEN Err(w1, "FeeTransferFailed")
    ELSE
    LET vb == validate_beneficiaries(p.beneficiaries_data) IN
    IF vb # "Ok" THEN Err(w1, vb)
    ELSE
    LET cb == create_beneficiaries(p.beneficiaries_data) IN
    IF cb.res # "Ok" THEN Err(w1, cb.res)
    ELSE
    LET plan == [plan_name           |-> p.plan_name,
                 description_len     |-> p.description_len,
                 asset_type          |-> "USDC",
                 total_amount        |-> net_amount,
                 distribution_method |-> p.distribution_method,
                 beneficiaries       |-> cb.bs,
                 total_allocation_bp |-> SumAllocation(p.beneficiaries_data),
                 owner               |-> p.owner,
                 created_at          |-> w.now,
                 is_active           |-> TRUE,
                 is_lendable         |-> p.is_lendable,
                 total_loaned        |-> 0]
        plan_id == w1.nextPlanId
    IN  [res |-> "Ok", id |-> plan_id,
         w |-> add_plan_to_user(store_plan(increment_plan_id(w1), plan_id, plan),
                                p.owner, plan_id)]

add_beneficiary(w, owner, plan_id, input) ==
    IF ~get_plan(w, plan_id) THEN Err(w, "PlanNotFound")
    ELSE
    LET plan == w.plans[plan_id] IN
    IF plan.owner # owner THEN Err(w, "Unauthorized")
    ELSE IF Len(plan.beneficiaries) >= 10 THEN Err(w, "TooManyBeneficiaries")
    ELSE IF input.allocation_bp = 0 THEN Err(w, "InvalidAllocation")
    ELSE
    LET new_total == plan.total_allocation_bp + input.allocation_bp IN
    IF new_total > 10000 THEN Err(w, "AllocationExceedsLimit")
    ELSE
    LET cb == create_beneficiary(input) IN
    IF cb.res # "Ok" THEN Err(w, cb.res)
    ELSE
    LET plan2 == [plan EXCEPT !.beneficiaries = Append(@, cb.b),
                              !.total_allocation_bp = new_total]
    IN Ok(Publish(store_plan(w, plan_id, plan2),
                  <<"BENEFIC", "ADD", <<plan_id, cb.b.hashed_email, input.allocation_bp>>>>))

\* remove_beneficiary as it would be if it forgot the removed allocation
remove_keeping_total(w, owner, plan_id, index) ==
    IF ~get_plan(w, plan_id) THEN Err(w, "PlanNotFound")
    ELSE
    LET plan == w.plans[plan_id] IN
    IF plan.owner # owner THEN Err(w, "Unauthorized")
    ELSE IF index >= Len(plan.beneficiaries) THEN Err(w, "InvalidBeneficiaryIndex")
    ELSE
    LET removed_allocation == plan.beneficiaries[index + 1].allocation_bp
        last_index == Len(plan.beneficiaries) - 1
        swapped == IF index # last_index
                   THEN [plan.beneficiaries EXCEPT ![index + 1] = plan.beneficiaries[last_index + 1]]
                   ELSE plan.beneficiaries
        popped == SubSeq(swapped, 1, last_index)
        plan2 == [plan EXCEPT !.beneficiaries = popped]
    IN Ok(Publish(store_plan(w, plan_id, plan2),
                  <<"BENEFIC", "REMOVE", <<plan_id, index, removed_allocation>>>>))

\* index is 0-based; the last beneficiary is moved into the hole
remove_beneficiary(w, owner, plan_id, index) ==
    IF ~get_plan(w, plan_id) THEN Err(w, "PlanNotFound")
    ELSE
    LET plan == w.plans[plan_id] IN
    IF plan.owner # owner THEN Err(w, "Unauthorized")
    ELSE IF index >= Len(plan.beneficiaries) THEN Err(w, "InvalidBeneficiaryIndex")
    ELSE
    LET removed_allocation == plan.beneficiaries[index + 1].allocation_bp
        last_index == Len(plan.beneficiaries) - 1
        swapped == IF index # last_index
                   THEN [plan.beneficiaries EXCEPT ![index + 1] = plan.beneficiaries[last_index + 1]]
                   ELSE plan.beneficiaries
        popped == SubSeq(swapped, 1, last_index)
        plan2 == [plan EXCEPT !.beneficiaries = popped,
                              !.total_allocation_bp = @ - removed_allocation]
    IN Ok(Publish(store_plan(w, plan_id, plan2),
                  <<"BENEFIC", "REMOVE", <<plan_id, index, removed_allocation>>>>))

set_lendable(w, owner, plan_id, is_lendable) ==
    IF ~get_plan(w, plan_id) THEN Err(w, "PlanNotFound")
    ELSE IF w.plans[plan_id].owner # owner THEN Err(w, "Unauthorized")
    ELSE Ok(Publish(store_plan(w, plan_id, [w.plans[plan_id] EXCEPT !.is_lendable = is_lendable]),
                    <<"VAULT", "LENDABLE", <<plan_id, is_lendable>>>>))

\* deposit as it would be without the look at is_active
deposit_into_inactive(w, owner, plan_id, amount) ==
    IF amount = 0 THEN Err(w, "InvalidTotalAmount")
    ELSE IF ~get_plan(w, plan_id) THEN Err(w, "PlanNotFound")
    ELSE
    LET plan == w.plans[plan_id] IN
    IF plan.owner # owner THEN Err(w, "Unauthorized")
    ELSE IF w.balances[owner] < amount THEN Err(w, "InsufficientBalance")
    ELSE
    LET t == token_transfer(w.balances, owner, VaultAddr, amount, FALSE) IN
    IF ~t.ok THEN Err(w, "FeeTransferFailed")
    ELSE Ok(Publish(store_plan([w EXCEPT !.balances = t.bal], plan_id,
                               [plan EXCEPT !.total_amount = @ + amount]),
                    <<"VAULT", "DEPOSIT", <<plan_id, amount>>>>))

deposit(w, owner, plan_id, amount) ==
    IF amount = 0 THEN Err(w, "InvalidTotalAmount")
    ELSE IF ~get_plan(w, plan_id) THEN Err(w, "PlanNotFound")
    ELSE
    LET plan == w.plans[plan_id] IN
    IF plan.owner # owner THEN Err(w, "Unauthorized")
    ELSE IF ~plan.is_active THEN Err(w, "PlanNotActive")
    ELSE IF w.balances[owner] < amount THEN Err(w, "InsufficientBalance")
    ELSE
    LET t == token_transfer(w.balances, owner, VaultAddr, amount, FALSE) IN
    IF ~t.ok THEN Err(w, "FeeTransferFailed")
    ELSE Ok(Publish(store_plan([w EXCEPT !.balances = t.bal], plan_id,
                               [plan EXCEPT !.total_amount = @ + amount]),
                    <<"VAULT", "DEPOSIT", <<plan_id, amount>>>>))

\* withdraw as it would be without the outstanding-loan term in "available"
withdraw_ignoring_loans(w, owner, plan_id, amount) ==
    IF amount = 0 THEN Err(w, "InvalidTotalAmount")
    ELSE IF ~get_plan(w, plan_id) THEN Err(w, "PlanNotFound")
    ELSE
    LET plan == w.plans[plan_id] IN
    IF plan.owner # owner THEN Err(w, "Unauthorized")
    ELSE IF amount > plan.total_amount THEN Err(w, "InsufficientLiquidity")
    ELSE
    LET t == token_transfer(w.balances, VaultAddr, owner, amount, FALSE) IN
    IF ~t.ok THEN Err(w, "FeeTransferFailed")
    ELSE Ok(Publish(store_plan([w EXCEPT !.balances = t.bal], plan_id,
                               [plan EXCEPT !.total_amount = @ - amount]),
                    <<"VAULT", "WITHDRAW", <<plan_id, amount>>>>))

withdraw(w, owner, plan_id, amount) ==
    IF amount = 0 THEN Err(w, "InvalidTotalAmount")
    ELSE IF ~get_plan(w, plan_id) THEN Err(w, "PlanNotFound")
    ELSE
    LET plan == w.plans[plan_id] IN
    IF plan.owner # owner THEN Err(w, "Unauthorized")
    ELSE
    LET available == SaturatingSub(plan.total_amount, plan.total_loaned) IN
    IF amount > available THEN Err(w, "InsufficientLiquidity")
    ELSE
    LET t == token_transfer(w.balances, VaultAddr, owner, amount, FALSE) IN
    IF ~t.ok THEN Err(w, "FeeTransferFailed")
    ELSE Ok(Publish(store_plan([w EXCEPT !.balances = t.bal], plan_id,
                               [plan EXCEPT !.total_amount = @ - amount]),
                    <<"VAULT", "WITHDRAW", <<plan_id, amount>>>>))

\* is_claim_time_valid as it would be with the thresholds exclusive
is_claim_time_valid_exclusive(w, plan) ==
    LET elapsed == w.now - plan.created_at IN
    CASE plan.distribution_method = "LumpSum"   -> TRUE
      [] plan.distribution_method = "Monthly"   -> elapsed > MonthSecs
      [] plan.distribution_method = "Quarterly" -> elapsed > QuarterSecs
      [] plan.distribution_method = "Yearly"    -> elapsed > YearSecs

is_claim_time_valid(w, plan) ==
    LET elapsed == w.now - plan.created_at IN
    CASE plan.distribution_method = "LumpSum"   -> TRUE
      [] plan.distribution_method = "Monthly"   -> elapsed >= MonthSecs
      [] plan.distribution_method = "Quarterly" -> elapsed >= QuarterSecs
      [] plan.distribution_method = "Yearly"    -> elapsed >= YearSecs

\* the 0-based index of the first beneficiary with both digests, or -1
RECURSIVE find_beneficiary(_, _, _, _)
find_beneficiary(bs, i, hashed_email, hashed_claim_code) ==
    IF i >= Len(bs) THEN -1
    ELSE IF bs[i + 1].hashed_email = hashed_email
            /\ bs[i + 1].hashed_claim_code = hashed_claim_code
    THEN i
    ELSE find_beneficiary(bs, i + 1, hashed_email, hashed_claim_code)

\* base_payout as it would be if the division rounded up
base_payout_rounded_up(total_amount, allocation_bp) ==
    ((total_amount * allocation_bp) + 9999) \div 10000

base_payout_of(total_amount, allocation_bp) == (total_amount * allocation_bp) \div 10000

\* claim_inheritance_plan as it would be without the look-up of the claim record
claim_without_replay_check(w, plan_id, email, claim_code) ==
    IF ~get_plan(w, plan_id) THEN Err(w, "PlanNotFound")
    ELSE
    LET plan == w.plans[plan_id] IN
    IF ~plan.is_active THEN Err(w, "PlanNotActive")
    ELSE
    LET triggered == get_trigger_info(w, plan_id) IN
    IF ~triggered /\ ~is_claim_time_valid(w, plan) THEN Err(w, "ClaimNotAllowedYet")
    ELSE
    LET hashed_email == hash_string(email)
        hcc == hash_claim_code(claim_code)
    IN
    IF ~hcc.ok THEN Err(w, "InvalidClaimCodeRange")
    ELSE
    LET key == claim_key(plan_id, hashed_email)
        index == find_beneficiary(plan.beneficiaries, 0, hashed_email, hcc.hash)
    IN
    IF index < 0 THEN Err(w, "BeneficiaryNotFound")
    ELSE
    LET claim == [plan_id |-> plan_id, beneficiary_index |-> index, claimed_at |-> w.now]
        w1 == [w EXCEPT !.claims = SetAt(@, key, claim)]
        beneficiary == plan.beneficiaries[index + 1]
        base_payout == base_payout_of(plan.total_amount, beneficiary.allocation_bp)
        available_liquidity == SaturatingSub(plan.total_amount, plan.total_loaned)
    IN
    IF ~triggered /\ base_payout > available_liquidity
    THEN Err(w1, "InsufficientLiquidity")
    ELSE
    LET updated_plan == [plan EXCEPT !.total_amount = SaturatingSub(@, base_payout)]
        w2 == add_plan_to_claimed(store_plan(w1, plan_id, updated_plan), plan.owner, plan_id)
    IN Ok(Publish(w2, <<"CLAIM", "SUCCESS", <<plan_id, hashed_email, base_payout>>>>))

claim_inheritance_plan(w, plan_id, email, claim_code) ==
    IF ~get_plan(w, plan_id) THEN Err(w, "PlanNotFound")
    ELSE
    LET plan == w.plans[plan_id] IN
    IF ~plan.is_active THEN Err(w, "PlanNotActive")
    ELSE
    LET triggered == get_trigger_info(w, plan_id) IN
    IF ~triggered /\ ~is_claim_time_valid(w, plan) THEN Err(w, "ClaimNotAllowedYet")
    ELSE
    LET hashed_email == hash_string(email)
        hcc == hash_claim_code(claim_code)
    IN
    IF ~hcc.ok THEN Err(w, "InvalidClaimCodeRange")
    ELSE
    LET key == claim_key(plan_id, hashed_email) IN
    IF key \in DOMAIN w.claims THEN Err(w, "AlreadyClaimed")
    ELSE
    LET index == find_beneficiary(plan.beneficiaries, 0, hashed_email, hcc.hash) IN
    IF index < 0 THEN Err(w, "BeneficiaryNotFound")
    ELSE
    LET claim == [plan_id |-> plan_id, beneficiary_index |-> index, claimed_at |-> w.now]
        w1 == [w EXCEPT !.claims = SetAt(@, key, claim)]
        beneficiary == plan.beneficiaries[index + 1]
        base_payout == base_payout_of(plan.total_amount, beneficiary.allocation_bp)
        available_liquidity == SaturatingSub(plan.total_amount, plan.total_loaned)
    IN
    IF ~triggered /\ base_payout > available_liquidity
    THEN Err(w1, "InsufficientLiquidity")
    ELSE
    LET updated_plan == [plan EXCEPT !.total_amount = SaturatingSub(@, base_payout)]
        w2 == add_plan_to_claimed(store_plan(w1, plan_id, updated_plan), plan.owner, plan_id)
    IN Ok(Publish(w2, <<"CLAIM", "SUCCESS", <<plan_id, hashed_email, base_payout>>>>))

\* the KycStatus submit_kyc starts from when the user has no record
NoKyc == [submitted |-> FALSE, approved |-> FALSE, rejected |-> FALSE,
          submitted_at |-> 0, approved_at |-> 0, rejected_at |-> 0]

submit_kyc(w, user) ==
    LET status == IF user \in DOMAIN w.kyc THEN w.kyc[user] ELSE NoKyc IN
    IF status.approved THEN Err(w, "KycAlreadyApproved")
    ELSE Ok([w EXCEPT !.kyc = SetAt(@, user, [status EXCEPT !.submitted = TRUE,
                                                           !.submitted_at = w.now])])

approve_kyc(w, a, user) ==
    IF require_admin(w, a) # "Ok" THEN Err(w, require_admin(w, a))
    ELSE IF user \notin DOMAIN w.kyc THEN Err(w, "KycNotSubmitted")
    ELSE
    LET status == w.kyc[user] IN
    IF ~status.submitted THEN Err(w, "KycNotSubmitted")
    ELSE IF status.approved THEN Err(w, "KycAlreadyApproved")
    ELSE Ok(Publish([w EXCEPT !.kyc = SetAt(@, user, [status EXCEPT !.approved = TRUE,
                                                                   !.approved_at = w.now])],
                    <<"KYC", "APPROV", <<user, w.now>>>>))

reject_kyc(w, a, user) ==
    IF require_admin(w, a) # "Ok" THEN Err(w, require_admin(w, a))
    ELSE IF user \notin DOMAIN w.kyc THEN Err(w, "KycNotSubmitted")
    ELSE
    LET status == w.kyc[user] IN
    IF ~status.submitted THEN Err(w, "KycNotSubmitted")
    ELSE IF status.rejected THEN Err(w, "KycAlreadyRejected")
    ELSE Ok(Publish([w EXCEPT !.kyc = SetAt(@, user, [status EXCEPT !.rejected = TRUE,
                                                                   !.rejected_at = w.now])],
                    <<"KYC", "REJECT", <<user, w.now>>>>))

deactivate_inheritance_plan(w, owner, plan_id) ==
    IF ~get_plan(w, plan_id) THEN Err(w, "PlanNotFound")
    ELSE
    LET plan == w.plans[plan_id] IN
    IF plan.owner # owner THEN Err(w, "Unauthorized")
    ELSE IF ~plan.is_active THEN Err(w, "PlanAlreadyDeactivated")
    ELSE
    LET w1 == add_plan_to_deactivated(
                  store_plan(w, plan_id, [plan EXCEPT !.is_active = FALSE]), plan_id)
    IN Ok(Publish(w1, <<"PLAN", "DEACT", <<plan_id, owner, plan.total_amount, w.now>>>>))

set_trigger_info(w, plan_id, info) == [w EXCEPT !.triggers = SetAt(@, plan_id, info)]

\* trigger_inheritance as it would be without the look-up of the trigger record
trigger_again(w, a, plan_id) ==
    IF require_admin(w, a) # "Ok" THEN Err(w, require_admin(w, a))
    ELSE IF ~get_plan(w, plan_id) THEN Err(w, "PlanNotFound")
    ELSE
    LET plan == w.plans[plan_id] IN
    IF ~plan.is_active THEN Err(w, "PlanNotActive")
    ELSE
    LET plan2 == [plan EXCEPT !.is_lendable = FALSE]
        trigger_info == [triggered_at          |-> w.now,
                         loan_freeze_active    |-> TRUE,
                         recall_attempted      |-> FALSE,
                         liquidation_triggered |-> FALSE,
                         original_loaned       |-> plan2.total_loaned,
                         recalled_amount       |-> 0,
                         settled_amount        |-> 0]
        w1 == set_trigger_info(store_plan(w, plan_id, plan2), plan_id, trigger_info)
    IN Ok(Publish(Publish(w1, <<"INHERIT", "TRIGGER", <<plan_id, w.now, plan2.total_loaned>>>>),
                  <<"LOAN", "FREEZE", <<plan_id, w.now>>>>))

trigger_inheritance(w, a, plan_id) ==
    IF require_admin(w, a) # "Ok" THEN Err(w, require_admin(w, a))
    ELSE IF ~get_plan(w, plan_id) THEN Err(w, "PlanNotFound")
    ELSE
    LET plan == w.plans[plan_id] IN
    IF ~plan.is_active THEN Err(w, "PlanNotActive")
    ELSE IF get_trigger_info(w, plan_id) THEN Err(w, "InheritanceAlreadyTriggered")
    ELSE
    LET plan2 == [plan EXCEPT !.is_lendable = FALSE]
        trigger_info == [triggered_at          |-> w.now,
                         loan_freeze_active    |-> TRUE,
                         recall_attempted      |-> FALSE,
                         liquidation_triggered |-> FALSE,
                         original_loaned       |-> plan2.total_loaned,
                         recalled_amount       |-> 0,
                         settled_amount        |-> 0]
        w1 == set_trigger_info(store_plan(w, plan_id, plan2), plan_id, trigger_info)
    IN Ok(Publish(Publish(w1, <<"INHERIT", "TRIGGER", <<plan_id, w.now, plan2.total_loaned>>>>),
                  <<"LOAN", "FREEZE", <<plan_id, w.now>>>>))

\* recall_loan as it would be if it stored the amount of the last recall
recall_loan_overwriting(w, a, plan_id, recall_amount) ==
    IF require_admin(w, a) # "Ok" THEN Err(w, require_admin(w, a))
    ELSE IF ~get_plan(w, plan_id) THEN Err(w, "PlanNotFound")
    ELSE IF ~get_trigger_info(w, plan_id) THEN Err(w, "InheritanceNotTriggered")
    ELSE
    LET plan == w.plans[plan_id]
        trigger_info == w.triggers[plan_id]
    IN
    IF plan.total_loaned = 0 THEN Err(w, "NoOutstandingLoans")
    ELSE IF recall_amount = 0 \/ recall_amount > plan.total_loaned
    THEN Err(w, "LoanRecallFailed")
    ELSE
    LET plan2 == [plan EXCEPT !.total_loaned = @ - recall_amount]
        info2 == [trigger_info EXCEPT !.recall_attempted = TRUE,
                                      !.recalled_amount = recall_amount]
        w1 == set_trigger_info(store_plan(w, plan_id, plan2), plan_id, info2)
    IN Ok(Publish(w1, <<"LOAN", "RECALL", <<plan_id, recall_amount, plan2.total_loaned>>>>))

\* recall_loan as it would be without the upper bound on recall_amount
recall_loan_unbounded(w, a, plan_id, recall_amount) ==
    IF require_admin(w, a) # "Ok" THEN Err(w, require_admin(w, a))
    ELSE IF ~get_plan(w, plan_id) THEN Err(w, "PlanNotFound")
    ELSE IF ~get_trigger_info(w, plan_id) THEN Err(w, "InheritanceNotTriggered")
    ELSE
    LET plan == w.plans[plan_id]
        trigger_info == w.triggers[plan_id]
    IN
    IF plan.total_loaned = 0 THEN Err(w, "NoOutstandingLoans")
    ELSE IF recall_amount = 0 THEN Err(w, "LoanRecallFailed")
    ELSE
    LET plan2 == [plan EXCEPT !.total_loaned = @ - recall_amount]
        info2 == [trigger_info EXCEPT !.recall_attempted = TRUE,
                                      !.recalled_amount = @ + recall_amount]
        w1 == set_trigger_info(store_plan(w, plan_id, plan2), plan_id, info2)
    IN Ok(Publish(w1, <<"LOAN", "RECALL", <<plan_id, recall_amount, plan2.total_loaned>>>>))

recall_loan(w, a, plan_id, recall_amount) ==
    IF require_admin(w, a) # "Ok" THEN Err(w, require_admin(w, a))
    ELSE IF ~get_plan(w, plan_id) THEN Err(w, "PlanNotFound")
    ELSE IF ~get_trigger_info(w, plan_id) THEN Err(w, "InheritanceNotTriggered")
    ELSE
    LET plan == w.plans[plan_id]
        trigger_info == w.triggers[plan_id]
    IN
    IF plan.total_loaned = 0 THEN Err(w, "NoOutstandingLoans")
    ELSE IF recall_amount = 0 \/ recall_amount > plan.total_loaned
    THEN Err(w, "LoanRecallFailed")
    ELSE
    LET plan2 == [plan EXCEPT !.total_loaned = @ - recall_amount]
        info2 == [trigger_info EXCEPT !.recall_attempted = TRUE,
                                      !.recalled_amount = @ + recall_amount]
        w1 == set_trigger_info(store_plan(w, plan_id, plan2), plan_id, info2)
    IN Ok(Publish(w1, <<"LOAN", "RECALL", <<plan_id, recall_amount, plan2.total_loaned>>>>))

\* liquidation_fallback as it would be if it left total_amount alone
liquidation_keeping_total(w, a, plan_id) ==
    IF require_admin(w, a) # "Ok" THEN Err(w, require_admin(w, a))
    ELSE IF ~get_plan(w, plan_id) THEN Err(w, "PlanNotFound")
    ELSE IF ~get_trigger_info(w, plan_id) THEN Err(w, "InheritanceNotTriggered")
    ELSE
    LET plan == w.plans[plan_id]
        trigger_info == w.triggers[plan_id]
    IN
    IF plan.total_loaned = 0 THEN Err(w, "NoOutstandingLoans")
    ELSE
    LET unrecoverable == plan.total_loaned
        plan2 == [plan EXCEPT !.total_loaned = 0]
        info2 == [trigger_info EXCEPT !.liquidation_triggered = TRUE,
                                      !.settled_amount = @ + unrecoverable]
        w1 == set_trigger_info(store_plan(w, plan_id, plan2), plan_id, info2)
    IN Ok(Publish(w1, <<"LOAN", "LIQUIDAT", <<plan_id, unrecoverable, plan2.total_amount>>>>))

liquidation_fallback(w, a, plan_id) ==
    IF require_admin(w, a) # "Ok" THEN Err(w, require_admin(w, a))
    ELSE IF ~get_plan(w, plan_id) THEN Err(w, "PlanNotFound")
    ELSE IF ~get_trigger_info(w, plan_id) THEN Err(w, "InheritanceNotTriggered")
    ELSE
    LET plan == w.plans[plan_id]
        trigger_info == w.triggers[plan_id]
    IN
    IF plan.total_loaned = 0 THEN Err(w, "NoOutstandingLoans")
    ELSE
    LET unrecoverable == plan.total_loaned
        plan2 == [plan EXCEPT !.total_amount = SaturatingSub(@, unrecoverable),
                              !.total_loaned = 0]
        info2 == [trigger_info EXCEPT !.liquidation_triggered = TRUE,
                                      !.settled_amount = @ + unrecoverable]
        w1 == set_trigger_info(store_plan(w, plan_id, plan2), plan_id, info2)
    IN Ok(Publish(w1, <<"LOAN", "LIQUIDAT", <<plan_id, unrecoverable, plan2.total_amount>>>>))

get_claimable_amount(w, plan_id) ==
    SaturatingSub(w.plans[plan_id].total_amount, w.plans[plan_id].total_loaned)

-----------------------------------------------------------------------------
(* Borrowing Vault.  "b" is the contract's storage together with the       *)
(* collateral token's balances.  An entry point that panics (unwrap on a   *)
(* missing key, a token transfer the token rejects) returns "Trap".        *)

BorrowerA     == "borrowerA"
BorrowerB     == "borrowerB"
BorrowAdmin   == "badmin"
BorrowingAddr == "borrowing"     \* env.current_contract_address()
CollateralToken == "COL"
BorrowAddresses == {BorrowerA, BorrowerB, BorrowAdmin, BorrowingAddr}

Has(f, k) == k \in DOMAIN f
GetOr(f, k, d) == IF k \in DOMAIN f THEN f[k] ELSE d

is_whitelisted(b, token) == GetOr(b.whitelist, token, FALSE)
is_global_paused(b) == GetOr(b.instance, "GlobalPause", FALSE)
is_vault_paused(b, token) == GetOr(b.vaultPause, token, FALSE)
get_collateral_ratio(b) == GetOr(b.instance, "CollateralRatio", 15000)
get_liquidation_threshold(b) == GetOr(b.instance, "LiquidationThreshold", 12000)
get_liquidation_bonus(b) == GetOr(b.instance, "LiquidationBonus", 500)

\* the token's transfer as the Borrowing Vault calls it: it panics when refused
collateral_transfer(b, from, to, amount) ==
    LET t == token_transfer(b.bal, from, to, amount, FALSE) IN
    [ok |-> t.ok, b |-> [b EXCEPT !.bal = t.bal]]

borrow_initialize(b, a, collateral_ratio_bps, liquidation_threshold_bps, liquidation_bonus_bps) ==
    IF Has(b.instance, "Admin") THEN Err(b, "AlreadyInitialized")
    ELSE Ok([b EXCEPT !.instance =
                SetAt(SetAt(SetAt(SetAt(@, "Admin", a),
                                  "CollateralRatio", collateral_ratio_bps),
                            "LiquidationThreshold", liquidation_threshold_bps),
                      "LiquidationBonus", liquidation_bonus_bps)])

get_next_loan_id(b) == IF b.loanCounter < 0 THEN 1 ELSE b.loanCounter + 1

\* create_loan as it would be if only the global pause stopped it
create_loan_unless_global_pause(b, borrower, principal, interest_rate, due_date, collateral_token, collateral_amount) ==
    IF ~is_whitelisted(b, collateral_token) THEN Err(b, "CollateralNotWhitelisted")
    ELSE IF is_global_paused(b) THEN Err(b, "Paused")
    ELSE
    LET ratio == get_collateral_ratio(b)
        required_collateral == (principal * ratio) \div 10000
    IN
    IF collateral_amount < required_collateral THEN Err(b, "InsufficientCollateral")
    ELSE
    LET t == collateral_transfer(b, borrower, BorrowingAddr, collateral_amount) IN
    IF ~t.ok THEN Err(b, "Trap")
    ELSE
    LET loan_id == get_next_loan_id(t.b)
        loan == [borrower          |-> borrower,
                 principal         |-> principal,
                 interest_rate     |-> interest_rate,
                 due_date          |-> due_date,
                 amount_repaid     |-> 0,
                 collateral_amount |-> collateral_amount,
                 collateral_token  |-> collateral_token,
                 is_active         |-> TRUE]
    IN Ok([t.b EXCEPT !.loanCounter = loan_id, !.loans = SetAt(@, loan_id, loan)])

create_loan(b, borrower, principal, interest_rate, due_date, collateral_token, collateral_amount) ==
    IF ~is_whitelisted(b, collateral_token) THEN Err(b, "CollateralNotWhitelisted")
    ELSE IF is_global_paused(b) \/ is_vault_paused(b, collateral_token) THEN Err(b, "Paused")
    ELSE
    LET ratio == get_collateral_ratio(b)
        required_collateral == (principal * ratio) \div 10000
    IN
    IF collateral_amount < required_collateral THEN Err(b, "InsufficientCollateral")
    ELSE
    LET t == collateral_transfer(b, borrower, BorrowingAddr, collateral_amount) IN
    IF ~t.ok THEN Err(b, "Trap")
    ELSE
    LET loan_id == get_next_loan_id(t.b)
        loan == [borrower          |-> borrower,
                 principal         |-> principal,
                 interest_rate     |-> interest_rate,
                 due_date          |-> due_date,
                 amount_repaid     |-> 0,
                 collateral_amount |-> collateral_amount,
                 collateral_token  |-> collateral_token,
                 is_active         |-> TRUE]
    IN Ok([t.b EXCEPT !.loanCounter = loan_id, !.loans = SetAt(@, loan_id, loan)])

repay_loan(b, loan_id, amount) ==
    IF ~Has(b.loans, loan_id) THEN Err(b, "Trap")
    ELSE
    LET loan == [b.loans[loan_id] EXCEPT !.amount_repaid = @ + amount] IN
    IF loan.amount_repaid >= loan.principal
    THEN LET t == collateral_transfer(b, BorrowingAddr, loan.borrower,
                                      loan.collateral_amount)
         IN IF ~t.ok THEN Err(b, "Trap")
            ELSE Ok([t.b EXCEPT !.loans = SetAt(@, loan_id, [loan EXCEPT !.is_active = FALSE])])
    ELSE Ok([b EXCEPT !.loans = SetAt(@, loan_id, loan)])

\* floor(collateral_amount * 10000 / debt) computed in 128 bits and cast to
\* u32, which keeps the low 32 bits: 2^32 = 429496 * 10000 + 7296.  A negative
\* debt is read as a number near 2^128 and the quotient is 0.  The quotient is
\* put together from collateral_amount \div debt so that no intermediate
\* product leaves the integers of the model; a result in the upper half of
\* u32, from 2^31 up, is written 2^31 - 1, the largest integer of the model.
health_factor(collateral_amount, debt) ==
    IF debt = 0 THEN 10000
    ELSE IF debt < 0 THEN 0
    ELSE LET whole == collateral_amount \div debt
             part == ((collateral_amount % debt) * 10000) \div debt
             turns == whole \div 429496
             left == whole % 429496
             low == (left * 10000 + part) - (turns * 7296)
             over == ((left - 214748) * 10000 + part) - (turns * 7296)
         IN IF left < 214748 THEN (IF low >= 0 THEN low ELSE 2147483647)
            ELSE IF over <= 3647 THEN 2147480000 + over
            ELSE 2147483647

liquidate(b, liquidator, loan_id, liquidate_amount) ==
    IF ~Has(b.loans, loan_id) THEN Err(b, "LoanNotFound")
    ELSE
    LET loan == b.loans[loan_id] IN
    IF ~loan.is_active THEN Err(b, "LoanNotActive")
    ELSE
    LET debt == loan.principal - loan.amount_repaid IN
    IF liquidate_amount <= 0 \/ liquidate_amount > debt THEN Err(b, "InvalidAmount")
    ELSE IF health_factor(loan.collateral_amount, debt) >= get_liquidation_threshold(b)
    THEN Err(b, "LoanHealthy")
    ELSE
    LET liquidation_bonus == get_liquidation_bonus(b)
        bonus_amount == (liquidate_amount * liquidation_bonus) \div 10000
        liquidator_reward == liquidate_amount + bonus_amount
    IN
    IF liquidator_reward > loan.collateral_amount THEN Err(b, "InvalidAmount")
    ELSE
    LET t == collateral_transfer(b, BorrowingAddr, liquidator, liquidator_reward) IN
    IF ~t.ok THEN Err(b, "Trap")
    ELSE
    LET paid == [loan EXCEPT !.collateral_amount = @ - liquidator_reward,
                             !.amount_repaid = @ + liquidate_amount]
        done == [paid EXCEPT !.is_active = IF paid.amount_repaid >= paid.principal
                                           THEN FALSE ELSE @]
    IN Ok([t.b EXCEPT !.loans = SetAt(@, loan_id, done)])

get_health_factor(b, loan_id) ==
    IF ~Has(b.loans, loan_id) THEN [res |-> "LoanNotFound", val |-> 0]
    ELSE LET loan == b.loans[loan_id] IN
         [res |-> "Ok",
          val |-> health_factor(loan.collateral_amount, loan.principal - loan.amount_repaid)]

borrow_whitelist_collateral(b, a, token) ==
    IF ~Has(b.instance, "Admin") THEN Err(b, "Trap")
    ELSE IF a # b.instance["Admin"] THEN Err(b, "Unauthorized")
    ELSE Ok([b EXCEPT !.whitelist = SetAt(@, token, TRUE)])

set_global_pause(b, a, paused) ==
    IF ~Has(b.instance, "Admin") THEN Err(b, "Trap")
    ELSE IF a # b.instance["Admin"] THEN Err(b, "Unauthorized")
    ELSE Ok([b EXCEPT !.instance = SetAt(@, "GlobalPause", paused)])

set_vault_pause(b, a, token, paused) ==
    IF ~Has(b.instance, "Admin") THEN Err(b, "Trap")
    ELSE IF a # b.instance["Admin"] THEN Err(b, "Unauthorized")
    ELSE Ok([b EXCEPT !.vaultPause = SetAt(@, token, paused)])


-----------------------------------------------------------------------------
(* Lending Pool.  "l" is the contract's storage together with the balances *)
(* of the pool token and of the collateral token, and the ledger time.     *)

MINIMUM_LIQUIDITY == 1000
PROTOCOL_INTEREST_BPS == 1000
BAD_DEBT_RESERVE_BPS == 5000
SECONDS_IN_YEAR == 31536000

LenderA     == "lenderA"
LenderB     == "lenderB"
PoolBorrower == "pborrower"
PoolAdmin   == "padmin"
PoolAddr    == "pool"           \* env.current_contract_address()
PoolTokenId == "USDC"
PoolCollId  == "PCOL"
PoolAddresses == {LenderA, LenderB, PoolBorrower, PoolAdmin, PoolAddr}

require_initialized(l) == Has(l.instance, "Admin")
get_pool(l) == l.instance["Pool"]
set_pool(l, pool) == [l EXCEPT !.instance = SetAt(@, "Pool", pool)]
get_shares(l, owner) == GetOr(l.shares, owner, 0)
set_shares(l, owner, n) == [l EXCEPT !.shares = SetAt(@, owner, n)]
\* the lowest id no open loan carries, instead of the stored counter
pool_lowest_free_id(l) == CHOOSE n \in 1..(Cardinality(DOMAIN l.loanById) + 1) : n \notin DOMAIN l.loanById

pool_next_loan_id(l) == GetOr(l.instance, "NextLoanId", 1)
increment_loan_id(l) == [l EXCEPT !.instance = SetAt(@, "NextLoanId", pool_next_loan_id(l) + 1)]
pool_collateral_ratio(l) == GetOr(l.instance, "CollateralRatio", 15000)
is_collateral_whitelisted(l, token) == GetOr(l.whitelist, token, FALSE)

pool_require_admin(l, caller) ==
    IF ~Has(l.instance, "Admin") THEN "NotAdmin"
    ELSE IF caller # l.instance["Admin"] THEN "NotAdmin"
    ELSE "Ok"

\* transfer: try_invoke_contract of the token's transfer; an error of the
\* token becomes TransferFailed
transfer(l, token, from, to, amount) ==
    IF token = PoolTokenId
    THEN LET t == token_transfer(l.bal, from, to, amount, FALSE) IN
         [ok |-> t.ok, l |-> [l EXCEPT !.bal = t.bal]]
    ELSE LET t == token_transfer(l.cbal, from, to, amount, FALSE) IN
         [ok |-> t.ok, l |-> [l EXCEPT !.cbal = t.bal]]

\* shares_for_deposit as it would be if the division rounded up
shares_for_deposit_rounded_up(pool, amount) ==
    IF pool.total_shares = 0 \/ pool.total_deposits = 0 THEN amount
    ELSE ((amount * pool.total_shares) + (pool.total_deposits - 1)) \div pool.total_deposits

shares_for_deposit(pool, amount) ==
    IF pool.total_shares = 0 \/ pool.total_deposits = 0 THEN amount
    ELSE (amount * pool.total_shares) \div pool.total_deposits

\* assets_for_shares as it would be if the locked shares' part of the deposits
\* were kept out of the redemption
assets_for_shares_less_lock(pool, n) ==
    IF pool.total_shares = 0 THEN 0
    ELSE (n * (pool.total_deposits - MINIMUM_LIQUIDITY)) \div pool.total_shares

assets_for_shares(pool, n) ==
    IF pool.total_shares = 0 THEN 0
    ELSE (n * pool.total_deposits) \div pool.total_shares

\* <<q, r>> with a * s = q * m + r and 0 <= r < m, taking s four bits at a
\* time, so that no intermediate value leaves 32-bit integers (m < 2^26)
Shift(h, d, a, m) ==
    LET r == (16 * h[2]) + (d * (a % m)) IN
    <<(16 * h[1]) + (d * (a \div m)) + (r \div m), r % m>>

RECURSIVE MulQR(_, _, _)
MulQR(a, s, m) ==
    IF s = 0 THEN <<0, 0>>
    ELSE Shift(MulQR(a, s \div 16, m), s % 16, a, m)

\* the interest rounded up instead of down
calculate_interest_rounded_up(principal, rate_bps, elapsed_seconds) ==
    IF elapsed_seconds = 0 \/ rate_bps = 0 THEN 0
    ELSE (MulQR(principal * rate_bps, elapsed_seconds, SECONDS_IN_YEAR)[1] + 9999) \div 10000

\* principal * rate_bps * elapsed_seconds / (10000 * SECONDS_IN_YEAR), rounded down
calculate_interest(principal, rate_bps, elapsed_seconds) ==
    IF elapsed_seconds = 0 \/ rate_bps = 0 THEN 0
    ELSE MulQR(principal * rate_bps, elapsed_seconds, SECONDS_IN_YEAR)[1] \div 10000

\* the utilization as a percentage instead of basis points
get_utilization_percent(total_borrowed, total_deposits) ==
    IF total_deposits = 0 THEN 0
    ELSE (total_borrowed * 100) \div total_deposits

get_utilization_bps(total_borrowed, total_deposits) ==
    IF total_deposits = 0 THEN 0
    ELSE (total_borrowed * 10000) \div total_deposits

calculate_dynamic_rate(base_rate_bps, multiplier_bps, utilization_bps) ==
    base_rate_bps + ((utilization_bps * multiplier_bps) \div 10000)

pool_initialize(l, a, token, base_rate_bps, multiplier_bps, collateral_ratio_bps, utilization_cap_bps) ==
    IF Has(l.instance, "Admin") THEN Err(l, "AlreadyInitialized")
    ELSE Ok([l EXCEPT !.instance =
                SetAt(SetAt(SetAt(SetAt(@, "Admin", a), "Token", token),
                            "CollateralRatio", collateral_ratio_bps),
                      "Pool", [total_deposits      |-> 0,
                               total_shares        |-> 0,
                               total_borrowed      |-> 0,
                               base_rate_bps       |-> base_rate_bps,
                               multiplier_bps      |-> multiplier_bps,
                               utilization_cap_bps |-> utilization_cap_bps,
                               retained_yield      |-> 0,
                               bad_debt_reserve    |-> 0])])

\* deposit as it would be if the first depositor were credited every share
pool_deposit_unlocked(l, depositor, amount) ==
    IF ~require_initialized(l) THEN Err(l, "NotInitialized")
    ELSE IF amount = 0 THEN Err(l, "InvalidAmount")
    ELSE
    LET t == transfer(l, l.instance["Token"], depositor, PoolAddr, amount) IN
    IF ~t.ok THEN Err(l, "TransferFailed")
    ELSE
    LET pool == get_pool(t.l)
        minted == shares_for_deposit(pool, amount)
        genesis == pool.total_shares = 0
    IN
    IF genesis /\ minted <= MINIMUM_LIQUIDITY THEN Err(t.l, "InvalidAmount")
    ELSE
    LET n == minted
        locked == 0
    IN
    IF n = 0 THEN Err(t.l, "InvalidAmount")
    ELSE
    LET pool2 == [pool EXCEPT !.total_deposits = @ + amount,
                              !.total_shares = @ + locked + n]
        l1 == set_shares(set_pool(t.l, pool2), depositor, get_shares(t.l, depositor) + n)
    IN [res |-> "Ok", val |-> n,
        w |-> Publish(l1, <<"POOL", "DEPOSIT", <<depositor, amount, n>>>>)]

pool_deposit(l, depositor, amount) ==
    IF ~require_initialized(l) THEN Err(l, "NotInitialized")
    ELSE IF amount = 0 THEN Err(l, "InvalidAmount")
    ELSE
    LET t == transfer(l, l.instance["Token"], depositor, PoolAddr, amount) IN
    IF ~t.ok THEN Err(l, "TransferFailed")
    ELSE
    LET pool == get_pool(t.l)
        minted == shares_for_deposit(pool, amount)
        genesis == pool.total_shares = 0
    IN
    IF genesis /\ minted <= MINIMUM_LIQUIDITY THEN Err(t.l, "InvalidAmount")
    ELSE
    LET n == IF genesis THEN minted - MINIMUM_LIQUIDITY ELSE minted
        locked == IF genesis THEN MINIMUM_LIQUIDITY ELSE 0
    IN
    IF n = 0 THEN Err(t.l, "InvalidAmount")
    ELSE
    LET pool2 == [pool EXCEPT !.total_deposits = @ + amount,
                              !.total_shares = @ + locked + n]
        l1 == set_shares(set_pool(t.l, pool2), depositor, get_shares(t.l, depositor) + n)
    IN [res |-> "Ok", val |-> n,
        w |-> Publish(l1, <<"POOL", "DEPOSIT", <<depositor, amount, n>>>>)]

\* withdraw as it would be without the comparison against the idle liquidity
pool_withdraw_unchecked(l, depositor, n) ==
    IF ~require_initialized(l) THEN Err(l, "NotInitialized")
    ELSE IF n = 0 THEN Err(l, "InvalidAmount")
    ELSE
    LET depositor_shares == get_shares(l, depositor) IN
    IF n > depositor_shares THEN Err(l, "InsufficientShares")
    ELSE
    LET pool == get_pool(l)
        amount == assets_for_shares(pool, n)
    IN
    IF amount = 0 THEN Err(l, "InvalidAmount")
    ELSE
    LET pool2 == [pool EXCEPT !.total_deposits = @ - amount, !.total_shares = @ - n]
        l1 == set_shares(set_pool(l, pool2), depositor, depositor_shares - n)
        t == transfer(l1, l1.instance["Token"], PoolAddr, depositor, amount)
    IN
    IF ~t.ok THEN Err(l1, "TransferFailed")
    ELSE [res |-> "Ok", val |-> amount,
          w |-> Publish(t.l, <<"POOL", "WITHDRAW", <<depositor, n, amount>>>>)]

pool_withdraw(l, depositor, n) ==
    IF ~require_initialized(l) THEN Err(l, "NotInitialized")
    ELSE IF n = 0 THEN Err(l, "InvalidAmount")
    ELSE
    LET depositor_shares == get_shares(l, depositor) IN
    IF n > depositor_shares THEN Err(l, "InsufficientShares")
    ELSE
    LET pool == get_pool(l)
        amount == assets_for_shares(pool, n)
    IN
    IF amount = 0 THEN Err(l, "InvalidAmount")
    ELSE
    LET available == SaturatingSub(pool.total_deposits, pool.total_borrowed) IN
    IF amount > available THEN Err(l, "InsufficientLiquidity")
    ELSE
    LET pool2 == [pool EXCEPT !.total_deposits = @ - amount, !.total_shares = @ - n]
        l1 == set_shares(set_pool(l, pool2), depositor, depositor_shares - n)
        t == transfer(l1, l1.instance["Token"], PoolAddr, depositor, amount)
    IN
    IF ~t.ok THEN Err(l1, "TransferFailed")
    ELSE [res |-> "Ok", val |-> amount,
          w |-> Publish(t.l, <<"POOL", "WITHDRAW", <<depositor, n, amount>>>>)]

\* borrow as it would be if the rate were taken from the utilization before
\* the new loan is added
pool_borrow_rate_before(l, borrower, amount, collateral_token, collateral_amount, duration_seconds) ==
    IF ~require_initialized(l) THEN Err(l, "NotInitialized")
    ELSE IF amount = 0 \/ collateral_amount = 0 THEN Err(l, "InvalidAmount")
    ELSE IF ~is_collateral_whitelisted(l, collateral_token)
    THEN Err(l, "CollateralNotWhitelisted")
    ELSE IF Has(l.loan, borrower) THEN Err(l, "LoanAlreadyExists")
    ELSE
    LET required_collateral == (amount * pool_collateral_ratio(l)) \div 10000 IN
    IF collateral_amount < required_collateral THEN Err(l, "InsufficientCollateral")
    ELSE
    LET pool == get_pool(l)
        available == SaturatingSub(pool.total_deposits, pool.total_borrowed)
    IN
    IF amount > available THEN Err(l, "InsufficientLiquidity")
    ELSE
    LET new_borrowed == pool.total_borrowed + amount
        new_utilization_bps == get_utilization_bps(new_borrowed, pool.total_deposits)
    IN
    IF new_utilization_bps > pool.utilization_cap_bps THEN Err(l, "UtilizationCapExceeded")
    ELSE
    LET t == transfer(l, collateral_token, borrower, PoolAddr, collateral_amount) IN
    IF ~t.ok THEN Err(l, "TransferFailed")
    ELSE
    LET pool2 == [pool EXCEPT !.total_borrowed = @ + amount]
        utilization_bps == get_utilization_bps(pool.total_borrowed, pool.total_deposits)
        dynamic_rate_bps == calculate_dynamic_rate(pool2.base_rate_bps, pool2.multiplier_bps,
                                                   utilization_bps)
        l1 == set_pool(t.l, pool2)
        loan_id == pool_next_loan_id(l1)
        l2 == increment_loan_id(l1)
        loan == [loan_id           |-> loan_id,
                 borrower          |-> borrower,
                 principal         |-> amount,
                 collateral_amount |-> collateral_amount,
                 collateral_token  |-> collateral_token,
                 borrow_time       |-> l.now,
                 due_date          |-> l.now + duration_seconds,
                 interest_rate_bps |-> dynamic_rate_bps]
        l3 == [l2 EXCEPT !.loan = SetAt(@, borrower, loan),
                         !.loanById = SetAt(@, loan_id, loan)]
        t2 == transfer(l3, l3.instance["Token"], PoolAddr, borrower, amount)
    IN
    IF ~t2.ok THEN Err(l3, "TransferFailed")
    ELSE [res |-> "Ok", val |-> loan_id,
          w |-> Publish(Publish(t2.l,
                    <<"POOL", "BORROW", <<loan_id, borrower, amount, collateral_amount,
                                          loan.due_date>>>>),
                    <<"COLL", "DEPOSIT", <<loan_id, borrower, collateral_token,
                                           collateral_amount>>>>)]

\* a borrow that does not look for the borrower's open loan
pool_borrow_again(l, borrower, amount, collateral_token, collateral_amount, duration_seconds) ==
    IF ~require_initialized(l) THEN Err(l, "NotInitialized")
    ELSE IF amount = 0 \/ collateral_amount = 0 THEN Err(l, "InvalidAmount")
    ELSE IF ~is_collateral_whitelisted(l, collateral_token)
    THEN Err(l, "CollateralNotWhitelisted")
    ELSE
    LET required_collateral == (amount * pool_collateral_ratio(l)) \div 10000 IN
    IF collateral_amount < required_collateral THEN Err(l, "InsufficientCollateral")
    ELSE
    LET pool == get_pool(l)
        available == SaturatingSub(pool.total_deposits, pool.total_borrowed)
    IN
    IF amount > available THEN Err(l, "InsufficientLiquidity")
    ELSE
    LET new_borrowed == pool.total_borrowed + amount
        new_utilization_bps == get_utilization_bps(new_borrowed, pool.total_deposits)
    IN
    IF new_utilization_bps > pool.utilization_cap_bps THEN Err(l, "UtilizationCapExceeded")
    ELSE
    LET t == transfer(l, collateral_token, borrower, PoolAddr, collateral_amount) IN
    IF ~t.ok THEN Err(l, "TransferFailed")
    ELSE
    LET pool2 == [pool EXCEPT !.total_borrowed = @ + amount]
        utilization_bps == get_utilization_bps(pool2.total_borrowed, pool2.total_deposits)
        dynamic_rate_bps == calculate_dynamic_rate(pool2.base_rate_bps, pool2.multiplier_bps,
                                                   utilization_bps)
        l1 == set_pool(t.l, pool2)
        loan_id == pool_next_loan_id(l1)
        l2 == increment_loan_id(l1)
        loan == [loan_id           |-> loan_id,
                 borrower          |-> borrower,
                 principal         |-> amount,
                 collateral_amount |-> collateral_amount,
                 collateral_token  |-> collateral_token,
                 borrow_time       |-> l.now,
                 due_date          |-> l.now + duration_seconds,
                 interest_rate_bps |-> dynamic_rate_bps]
        l3 == [l2 EXCEPT !.loan = SetAt(@, borrower, loan),
                         !.loanById = SetAt(@, loan_id, loan)]
        t2 == transfer(l3, l3.instance["Token"], PoolAddr, borrower, amount)
    IN
    IF ~t2.ok THEN Err(l3, "TransferFailed")
    ELSE [res |-> "Ok", val |-> loan_id,
          w |-> Publish(Publish(t2.l,
                    <<"POOL", "BORROW", <<loan_id, borrower, amount, collateral_amount,
                                          loan.due_date>>>>),
                    <<"COLL", "DEPOSIT", <<loan_id, borrower, collateral_token,
                                           collateral_amount>>>>)]

pool_borrow(l, borrower, amount, collateral_token, collateral_amount, duration_seconds) ==
    IF ~require_initialized(l) THEN Err(l, "NotInitialized")
    ELSE IF amount = 0 \/ collateral_amount = 0 THEN Err(l, "InvalidAmount")
    ELSE IF ~is_collateral_whitelisted(l, collateral_token)
    THEN Err(l, "CollateralNotWhitelisted")
    ELSE IF Has(l.loan, borrower) THEN Err(l, "LoanAlreadyExists")
    ELSE
    LET required_collateral == (amount * pool_collateral_ratio(l)) \div 10000 IN
    IF collateral_amount < required_collateral THEN Err(l, "InsufficientCollateral")
    ELSE
    LET pool == get_pool(l)
        available == SaturatingSub(pool.total_deposits, pool.total_borrowed)
    IN
    IF amount > available THEN Err(l, "InsufficientLiquidity")
    ELSE
    LET new_borrowed == pool.total_borrowed + amount
        new_utilization_bps == get_utilization_bps(new_borrowed, pool.total_deposits)
    IN
    IF new_utilization_bps > pool.utilization_cap_bps THEN Err(l, "UtilizationCapExceeded")
    ELSE
    LET t == transfer(l, collateral_token, borrower, PoolAddr, collateral_amount) IN
    IF ~t.ok THEN Err(l, "TransferFailed")
    ELSE
    LET pool2 == [pool EXCEPT !.total_borrowed = @ + amount]
        utilization_bps == get_utilization_bps(pool2.total_borrowed, pool2.total_deposits)
        dynamic_rate_bps == calculate_dynamic_rate(pool2.base_rate_bps, pool2.multiplier_bps,
                                                   utilization_bps)
        l1 == set_pool(t.l, pool2)
        loan_id == pool_next_loan_id(l1)
        l2 == increment_loan_id(l1)
        loan == [loan_id           |-> loan_id,
                 borrower          |-> borrower,
                 principal         |-> amount,
                 collateral_amount |-> collateral_amount,
                 collateral_token  |-> collateral_token,
                 borrow_time       |-> l.now,
                 due_date          |-> l.now + duration_seconds,
                 interest_rate_bps |-> dynamic_rate_bps]
        l3 == [l2 EXCEPT !.loan = SetAt(@, borrower, loan),
                         !.loanById = SetAt(@, loan_id, loan)]
        t2 == transfer(l3, l3.instance["Token"], PoolAddr, borrower, amount)
    IN
    IF ~t2.ok THEN Err(l3, "TransferFailed")
    ELSE [res |-> "Ok", val |-> loan_id,
          w |-> Publish(Publish(t2.l,
                    <<"POOL", "BORROW", <<loan_id, borrower, amount, collateral_amount,
                                          loan.due_date>>>>),
                    <<"COLL", "DEPOSIT", <<loan_id, borrower, collateral_token,
                                           collateral_amount>>>>)]

Without(f, k) == [x \in DOMAIN f \ {k} |-> f[x]]

\* repay as it would be if it stored the lenders' share of the interest as
\* total_deposits instead of adding it
pool_repay_overwriting(l, borrower) ==
    IF ~require_initialized(l) THEN Err(l, "NotInitialized")
    ELSE IF ~Has(l.loan, borrower) THEN Err(l, "NoOpenLoan")
    ELSE
    LET loan == l.loan[borrower]
        elapsed == SaturatingSub(l.now, loan.borrow_time)
        interest == calculate_interest(loan.principal, loan.interest_rate_bps, elapsed)
        total_repayment == loan.principal + interest
        t == transfer(l, l.instance["Token"], borrower, PoolAddr, total_repayment)
    IN
    IF ~t.ok THEN Err(l, "TransferFailed")
    ELSE
    LET t2 == transfer(t.l, loan.collateral_token, PoolAddr, borrower, loan.collateral_amount) IN
    IF ~t2.ok THEN Err(t.l, "TransferFailed")
    ELSE
    LET pool == get_pool(t2.l)
        protocol_share == (interest * PROTOCOL_INTEREST_BPS) \div 10000
        reserve_share == (protocol_share * BAD_DEBT_RESERVE_BPS) \div 10000
        retained_share == SaturatingSub(protocol_share, reserve_share)
        pool_share == interest - protocol_share
        pool2 == [pool EXCEPT !.total_borrowed = @ - loan.principal,
                              !.total_deposits = pool_share,
                              !.retained_yield = @ + retained_share,
                              !.bad_debt_reserve = @ + reserve_share]
        l1 == set_pool(t2.l, pool2)
        l2 == [l1 EXCEPT !.loan = Without(@, borrower),
                         !.loanById = Without(@, loan.loan_id)]
    IN [res |-> "Ok", val |-> total_repayment,
        w |-> Publish(l2, <<"POOL", "REPAY", <<loan.loan_id, borrower, loan.principal,
                                               interest, total_repayment,
                                               loan.collateral_amount>>>>)]

\* repay as it would be if it left the LoanById record behind
pool_repay_keeping_index(l, borrower) ==
    IF ~require_initialized(l) THEN Err(l, "NotInitialized")
    ELSE IF ~Has(l.loan, borrower) THEN Err(l, "NoOpenLoan")
    ELSE
    LET loan == l.loan[borrower]
        elapsed == SaturatingSub(l.now, loan.borrow_time)
        interest == calculate_interest(loan.principal, loan.interest_rate_bps, elapsed)
        total_repayment == loan.principal + interest
        t == transfer(l, l.instance["Token"], borrower, PoolAddr, total_repayment)
    IN
    IF ~t.ok THEN Err(l, "TransferFailed")
    ELSE
    LET t2 == transfer(t.l, loan.collateral_token, PoolAddr, borrower, loan.collateral_amount) IN
    IF ~t2.ok THEN Err(t.l, "TransferFailed")
    ELSE
    LET pool == get_pool(t2.l)
        protocol_share == (interest * PROTOCOL_INTEREST_BPS) \div 10000
        reserve_share == (protocol_share * BAD_DEBT_RESERVE_BPS) \div 10000
        retained_share == SaturatingSub(protocol_share, reserve_share)
        pool_share == interest - protocol_share
        pool2 == [pool EXCEPT !.total_borrowed = @ - loan.principal,
                              !.total_deposits = @ + pool_share,
                              !.retained_yield = @ + retained_share,
                              !.bad_debt_reserve = @ + reserve_share]
        l1 == set_pool(t2.l, pool2)
        l2 == [l1 EXCEPT !.loan = Without(@, borrower)]
    IN [res |-> "Ok", val |-> total_repayment,
        w |-> Publish(l2, <<"POOL", "REPAY", <<loan.loan_id, borrower, loan.principal,
                                               interest, total_repayment,
                                               loan.collateral_amount>>>>)]

pool_repay(l, borrower) ==
    IF ~require_initialized(l) THEN Err(l, "NotInitialized")
    ELSE IF ~Has(l.loan, borrower) THEN Err(l, "NoOpenLoan")
    ELSE
    LET loan == l.loan[borrower]
        elapsed == SaturatingSub(l.now, loan.borrow_time)
        interest == calculate_interest(loan.principal, loan.interest_rate_bps, elapsed)
        total_repayment == loan.principal + interest
        t == transfer(l, l.instance["Token"], borrower, PoolAddr, total_repayment)
    IN
    IF ~t.ok THEN Err(l, "TransferFailed")
    ELSE
    LET t2 == transfer(t.l, loan.collateral_token, PoolAddr, borrower, loan.collateral_amount) IN
    IF ~t2.ok THEN Err(t.l, "TransferFailed")
    ELSE
    LET pool == get_pool(t2.l)
        protocol_share == (interest * PROTOCOL_INTEREST_BPS) \div 10000
        reserve_share == (protocol_share * BAD_DEBT_RESERVE_BPS) \div 10000
        retained_share == SaturatingSub(protocol_share, reserve_share)
        pool_share == interest - protocol_share
        pool2 == [pool EXCEPT !.total_borrowed = @ - loan.principal,
                              !.total_deposits = @ + pool_share,
                              !.retained_yield = @ + retained_share,
                              !.bad_debt_reserve = @ + reserve_share]
        l1 == set_pool(t2.l, pool2)
        l2 == [l1 EXCEPT !.loan = Without(@, borrower),
                         !.loanById = Without(@, loan.loan_id)]
    IN [res |-> "Ok", val |-> total_repayment,
        w |-> Publish(l2, <<"POOL", "REPAY", <<loan.loan_id, borrower, loan.principal,
                                               interest, total_repayment,
                                               loan.collateral_amount>>>>)]

\* a priority withdrawal that is also taken out of the lenders' deposits
withdraw_priority_from_deposits(l, caller, amount) ==
    IF ~require_initialized(l) THEN Err(l, "NotInitialized")
    ELSE IF amount = 0 THEN Err(l, "InvalidAmount")
    ELSE
    LET pool == get_pool(l) IN
    IF amount > pool.retained_yield THEN Err(l, "InsufficientLiquidity")
    ELSE
    LET l1 == set_pool(l, [pool EXCEPT !.retained_yield = @ - amount,
                                     !.total_deposits = SaturatingSub(@, amount)])
        t == transfer(l1, l1.instance["Token"], PoolAddr, caller, amount)
    IN
    IF ~t.ok THEN Err(l1, "TransferFailed")
    ELSE [res |-> "Ok", val |-> amount,
          w |-> Publish(t.l, <<"POOL", "PRIORITY", <<caller, amount>>>>)]

withdraw_priority(l, caller, amount) ==
    IF ~require_initialized(l) THEN Err(l, "NotInitialized")
    ELSE IF amount = 0 THEN Err(l, "InvalidAmount")
    ELSE
    LET pool == get_pool(l) IN
    IF amount > pool.retained_yield THEN Err(l, "InsufficientLiquidity")
    ELSE
    LET l1 == set_pool(l, [pool EXCEPT !.retained_yield = @ - amount])
        t == transfer(l1, l1.instance["Token"], PoolAddr, caller, amount)
    IN
    IF ~t.ok THEN Err(l1, "TransferFailed")
    ELSE [res |-> "Ok", val |-> amount,
          w |-> Publish(t.l, <<"POOL", "PRIORITY", <<caller, amount>>>>)]

pool_whitelist_collateral(l, a, token) ==
    IF pool_require_admin(l, a) # "Ok" THEN Err(l, pool_require_admin(l, a))
    ELSE Ok([l EXCEPT !.whitelist = SetAt(@, token, TRUE)])

remove_collateral(l, a, token) ==
    IF pool_require_admin(l, a) # "Ok" THEN Err(l, pool_require_admin(l, a))
    ELSE Ok([l EXCEPT !.whitelist = Without(@, token)])

-----------------------------------------------------------------------------
(* The host.  An invocation runs on the storage as it stands, with an      *)
(* empty event buffer ("events" is not storage: it is what the invocation  *)
(* published); the host keeps its writes and events when it returns Ok     *)
(* and discards them all when it returns an error.                         *)

Vault == [admin |-> admin, nextPlanId |-> nextPlanId, plans |-> plans,
          userPlans |-> userPlans, claims |-> claims, triggers |-> triggers,
          claimedPlans |-> claimedPlans, deactivated |-> deactivated, kyc |-> kyc,
          balances |-> balances, now |-> now, events |-> <<>>]

\* a host that kept the writes of a failed invocation
HostKeepingWrites(pre, out) == out.w

Host(pre, out) == IF out.res = "Ok" THEN out.w ELSE pre

\* what entry point "call" leaves behind when applied to the current storage
Run(call) == [res |-> call.res, w |-> Host(Vault, call)]

Commit(op, call) ==
    LET w == Host(Vault, call) IN
    /\ admin' = w.admin
    /\ nextPlanId' = w.nextPlanId
    /\ plans' = w.plans
    /\ userPlans' = w.userPlans
    /\ claims' = w.claims
    /\ triggers' = w.triggers
    /\ claimedPlans' = w.claimedPlans
    /\ deactivated' = w.deactivated
    /\ kyc' = w.kyc
    /\ balances' = w.balances
    /\ last' = [op |-> op, res |-> call.res]
    /\ now' = now
    /\ UNCHANGED <<borrowVars, lendVars>>

Borrowing == [instance |-> bInstance, whitelist |-> bWhitelist,
              vaultPause |-> bVaultPause, loanCounter |-> loanCounter,
              loans |-> loans, bal |-> collateral]

\* what an entry point of the Borrowing Vault leaves behind
RunB(call) == [res |-> call.res, w |-> Host(Borrowing, call)]

CommitB(op, call) ==
    LET b == Host(Borrowing, call) IN
    /\ bInstance' = b.instance
    /\ bWhitelist' = b.whitelist
    /\ bVaultPause' = b.vaultPause
    /\ loanCounter' = b.loanCounter
    /\ loans' = b.loans
    /\ collateral' = b.bal
    /\ bLast' = [op |-> op, res |-> call.res]
    /\ UNCHANGED <<vaultVars, lendVars>>

Lending == [instance |-> lInstance, shares |-> shares, loan |-> loanOf,
            loanById |-> loanById, whitelist |-> lWhitelist, bal |-> poolToken,
            cbal |-> poolColl, now |-> now, events |-> <<>>]

\* what an entry point of the Lending Pool leaves behind
RunL(call) == [res |-> call.res, w |-> Host(Lending, call)]

CommitL(op, call) ==
    LET l == Host(Lending, call) IN
    /\ lInstance' = l.instance
    /\ shares' = l.shares
    /\ loanOf' = l.loan
    /\ loanById' = l.loanById
    /\ lWhitelist' = l.whitelist
    /\ poolToken' = l.bal
    /\ poolColl' = l.cbal
    /\ lLast' = [op |-> op, res |-> call.res]
    /\ UNCHANGED <<vaultVars, borrowVars>>

-----------------------------------------------------------------------------
(* Bounds and inputs *)

MaxPlans  == 1      \* the vault specifications create plans while NextPlanId <= MaxPlans
OwnerMint == 200    \* the owner's token balance at the start

PlanIds == 1..(MaxPlans + 1)     \* one id more than can exist

Ben(email, code, bp) ==
    [name |-> "N", email |-> email, claim_code |-> code,
     bank_account |-> "1111", allocation_bp |-> bp]

Emails     == {"al@x", "bob@x", "eve@xx"}
ClaimCodes == {111111, 222222, 1000000}

BenWhole  == <<Ben("al@x", 111111, 10000)>>
BenHalves == <<Ben("al@x", 111111, 5000), Ben("bob@x", 222222, 5000)>>
BenShort  == <<Ben("al@x", 111111, 5000)>>                  \* sums to 5000
BenNoMail == <<Ben("", 111111, 10000)>>                     \* empty email
BenBadCode == <<Ben("al@x", 1000000, 10000)>>               \* claim code out of range

Params(owner, amount, method, bens, lendable) ==
    [owner |-> owner, plan_name |-> "Will", description_len |-> 7,
     total_amount |-> amount, distribution_method |-> method,
     beneficiaries_data |-> bens, is_lendable |-> lendable]

Instants == {0, MonthSecs - 1, MonthSecs, QuarterSecs - 1, QuarterSecs,
             YearSecs - 1, YearSecs}

-----------------------------------------------------------------------------
(* Actions of the Inheritance Vault *)

VaultInit ==
    /\ admin = NoAddr
    /\ nextPlanId = 1
    /\ plans = <<>>
    /\ userPlans = [a \in Addresses |-> <<>>]
    /\ claims = <<>>
    /\ triggers = <<>>
    /\ claimedPlans = [user |-> [a \in Addresses |-> <<>>], all |-> <<>>]
    /\ deactivated = <<>>
    /\ kyc = <<>>
    /\ balances = [a \in Addresses |-> IF a = OwnerAddr THEN OwnerMint ELSE 0]
    /\ now = 0
    /\ last = [op |-> "init", res |-> "Ok"]

InitializeAdmin ==
    \E a \in {AdminAddr} : Commit("initialize_admin", initialize_admin(Vault, a))

InitializeAdminBy(callers) ==
    \E a \in callers : Commit("initialize_admin", initialize_admin(Vault, a))

CreatePlan(limit, amounts, methods, lists, refusals) ==
    /\ nextPlanId <= limit
    /\ \E amount \in amounts, method \in methods, bens \in lists, refused \in refusals :
          Commit("create_inheritance_plan",
                 create_inheritance_plan(Vault, Params(OwnerAddr, amount, method, bens, TRUE),
                                         refused))

AddBeneficiary(callers, ids, inputs) ==
    \E o \in callers, id \in ids, input \in inputs :
        Commit("add_beneficiary", add_beneficiary(Vault, o, id, input))

RemoveBeneficiary(callers, ids, indices) ==
    \E o \in callers, id \in ids, index \in indices :
        Commit("remove_beneficiary", remove_beneficiary(Vault, o, id, index))

SetLendable(callers, ids) ==
    \E o \in callers, id \in ids, flag \in BOOLEAN :
        Commit("set_lendable", set_lendable(Vault, o, id, flag))

Deposit(callers, ids, amounts) ==
    \E o \in callers, id \in ids, amount \in amounts :
        Commit("deposit", deposit(Vault, o, id, amount))

Withdraw(callers, ids, amounts) ==
    \E o \in callers, id \in ids, amount \in amounts :
        Commit("withdraw", withdraw(Vault, o, id, amount))

Claim(ids, emails, codes) ==
    \E id \in ids, email \in emails, code \in codes :
        Commit("claim_inheritance_plan", claim_inheritance_plan(Vault, id, email, code))

Deactivate(callers, ids) ==
    \E o \in callers, id \in ids :
        Commit("deactivate_inheritance_plan", deactivate_inheritance_plan(Vault, o, id))

Trigger(callers, ids) ==
    \E a \in callers, id \in ids :
        Commit("trigger_inheritance", trigger_inheritance(Vault, a, id))

Recall(callers, ids, amounts) ==
    \E a \in callers, id \in ids, amount \in amounts :
        Commit("recall_loan", recall_loan(Vault, a, id, amount))

Liquidate(callers, ids) ==
    \E a \in callers, id \in ids :
        Commit("liquidation_fallback", liquidation_fallback(Vault, a, id))

SubmitKyc(users) ==
    \E user \in users : Commit("submit_kyc", submit_kyc(Vault, user))

ApproveKyc(callers, users) ==
    \E a \in callers, user \in users : Commit("approve_kyc", approve_kyc(Vault, a, user))

RejectKyc(callers, users) ==
    \E a \in callers, user \in users : Commit("reject_kyc", reject_kyc(Vault, a, user))

\* The out-of-band lender: no entry point raises total_loaned; the lending
\* side writes it into the plan (the tests write it with env.as_contract).
\* It lends against a lendable plan and never more than the plan holds.
Lend(ids, amounts) ==
    \E id \in ids \cap DOMAIN plans, v \in amounts :
        /\ plans[id].is_lendable
        /\ v > plans[id].total_loaned
        /\ v <= plans[id].total_amount
        /\ plans' = [plans EXCEPT ![id].total_loaned = v]
        /\ last' = [op |-> "lend", res |-> "Ok"]
        /\ UNCHANGED <<admin, nextPlanId, userPlans, claims, triggers, claimedPlans,
                       deactivated, kyc, balances, now>>
        /\ UNCHANGED <<borrowVars, lendVars>>

\* the ledger clock moves forward
Tick(instants) ==
    \E t \in instants :
        /\ t > now
        /\ now' = t
        /\ last' = [op |-> "tick", res |-> "Ok"]
        /\ UNCHANGED <<admin, nextPlanId, plans, userPlans, claims, triggers,
                       claimedPlans, deactivated, kyc, balances>>
        /\ UNCHANGED <<borrowVars, lendVars>>

-----------------------------------------------------------------------------
(* Actions of the Borrowing Vault *)

MaxLoans     == 2      \* create_loan is offered while fewer loans exist
BorrowerMint == 300    \* each borrower's collateral-token balance at the start

LoanIds == 1..(MaxLoans + 1)

BorrowInit ==
    /\ bInstance = <<>>
    /\ bWhitelist = <<>>
    /\ bVaultPause = <<>>
    /\ loanCounter = -1
    /\ loans = <<>>
    /\ collateral = [a \in BorrowAddresses |->
                        IF a \in {BorrowerA, BorrowerB} THEN BorrowerMint ELSE 0]
    /\ bLast = [op |-> "init", res |-> "Ok"]

BorrowInitialize ==
    \E a \in {BorrowAdmin} :
        CommitB("initialize", borrow_initialize(Borrowing, a, 15000, 12000, 500))

WhitelistCollateral(callers) ==
    \E a \in callers :
        CommitB("whitelist_collateral",
                borrow_whitelist_collateral(Borrowing, a, CollateralToken))

CreateLoan(borrowers, principals, collaterals) ==
    /\ Cardinality(DOMAIN loans) < MaxLoans
    /\ \E borrower \in borrowers, principal \in principals, c \in collaterals :
          CommitB("create_loan",
                  create_loan(Borrowing, borrower, principal, 500, 1000, CollateralToken, c))

RepayLoan(ids, amounts) ==
    \E id \in ids, amount \in amounts :
        CommitB("repay_loan", repay_loan(Borrowing, id, amount))

BorrowInitializeAt(ratios, thresholds) ==
    \E ratio \in ratios, threshold \in thresholds :
        CommitB("initialize", borrow_initialize(Borrowing, BorrowAdmin, ratio, threshold, 500))

CreateLoanAt(borrowers, principals, rates, collaterals) ==
    /\ Cardinality(DOMAIN loans) < MaxLoans
    /\ \E borrower \in borrowers, principal \in principals, rate \in rates, c \in collaterals :
          CommitB("create_loan",
                  create_loan(Borrowing, borrower, principal, rate, 1000000, CollateralToken, c))

LiquidateLoan(liquidators, ids, amounts) ==
    \E liquidator \in liquidators, id \in ids, amount \in amounts :
        CommitB("liquidate", liquidate(Borrowing, liquidator, id, amount))

SetGlobalPause(callers) ==
    \E a \in callers, paused \in BOOLEAN :
        CommitB("set_global_pause", set_global_pause(Borrowing, a, paused))

SetVaultPause(callers) ==
    \E a \in callers, paused \in BOOLEAN :
        CommitB("set_vault_pause", set_vault_pause(Borrowing, a, CollateralToken, paused))

-----------------------------------------------------------------------------
(* Actions of the Lending Pool *)

LenderMint   == 2000    \* each lender's pool-token balance at the start
PBorrowerMint == 300    \* the borrower's pool-token balance at the start
PCollMint    == 6000    \* the borrower's collateral-token balance at the start
MaxPoolLoans == 2       \* borrow is offered while NextLoanId <= MaxPoolLoans

PoolInit ==
    /\ lInstance = <<>>
    /\ shares = <<>>
    /\ loanOf = <<>>
    /\ loanById = <<>>
    /\ lWhitelist = <<>>
    /\ poolToken = [a \in PoolAddresses |->
                       IF a \in {LenderA, LenderB} THEN LenderMint
                       ELSE IF a = PoolBorrower THEN PBorrowerMint ELSE 0]
    /\ poolColl = [a \in PoolAddresses |->
                      IF a \in {PoolBorrower, LenderB} THEN PCollMint ELSE 0]
    /\ lLast = [op |-> "init", res |-> "Ok"]

PoolInitialize(caps) ==
    \E cap \in caps :
        CommitL("initialize",
                pool_initialize(Lending, PoolAdmin, PoolTokenId, 500, 1000, 15000, cap))

PoolWhitelist(callers) ==
    \E a \in callers :
        CommitL("whitelist_collateral", pool_whitelist_collateral(Lending, a, PoolCollId))

PoolDeposit(depositors, amounts) ==
    \E d \in depositors, amount \in amounts :
        CommitL("deposit", pool_deposit(Lending, d, amount))

PoolWithdraw(depositors, counts) ==
    \E d \in depositors, n \in counts :
        CommitL("withdraw", pool_withdraw(Lending, d, n))

PoolBorrow(borrowers, amounts, collaterals) ==
    /\ GetOr(lInstance, "NextLoanId", 1) <= MaxPoolLoans
    /\ \E b \in borrowers, amount \in amounts, c \in collaterals :
        CommitL("borrow", pool_borrow(Lending, b, amount, PoolCollId, c, 1000))

PoolRepay(borrowers) ==
    \E b \in borrowers : CommitL("repay", pool_repay(Lending, b))

WithdrawPriority(callers, amounts) ==
    \E c \in callers, amount \in amounts :
        CommitL("withdraw_priority", withdraw_priority(Lending, c, amount))

\* the ledger clock moves forward under the pool
PoolTick(instants) ==
    \E t \in instants :
        /\ t > now
        /\ now' = t
        /\ UNCHANGED <<admin, nextPlanId, plans, userPlans, claims, triggers,
                       claimedPlans, deactivated, kyc, balances, last>>
        /\ UNCHANGED <<borrowVars, lendVars>>

Init == VaultInit /\ BorrowInit /\ PoolInit

\* The plan the calls of the vault specifications address; plans created after it
\* are bystanders whose records the calls must leave alone.
FirstPlan == {1}

VaultNext ==
    \/ InitializeAdmin
    \/ CreatePlan(MaxPlans, {100}, {"LumpSum"}, {BenWhole, BenHalves}, {{}})
    \/ Deposit({OwnerAddr}, FirstPlan, {0, 50})
    \/ Withdraw({OwnerAddr}, FirstPlan, {0, 50})
    \/ Claim(FirstPlan, {"al@x", "bob@x"}, {111111, 222222})
    \/ Deactivate({OwnerAddr}, FirstPlan)
    \/ Trigger({AdminAddr}, FirstPlan)
    \/ Recall({AdminAddr}, FirstPlan, {0, 20, 1000})
    \/ Liquidate({AdminAddr}, FirstPlan)
    \/ Lend(FirstPlan, {40, 98})

SpecVault == Init /\ [][VaultNext]_vars

-----------------------------------------------------------------------------
(* Outstanding loans against the plan balance *)

Triggered(id) == id \in DOMAIN triggers
ClaimedFrom(id) == \E k \in DOMAIN claims : claims[k].plan_id = id

\* C1, as stated: in every reachable state every plan has
\* total_loaned <= total_amount.  claim_inheritance_plan skips its liquidity
\* check once the plan is triggered, so this does not hold.
C1_LoanedWithinTotal ==
    \A id \in DOMAIN plans : plans[id].total_loaned <= plans[id].total_amount

\* C1, amended: total_loaned <= total_amount holds for every plan unless the
\* plan has a trigger record and a beneficiary has claimed from it; deposit,
\* withdraw, untriggered claims, trigger, recall_loan, liquidation_fallback and
\* deactivation all keep it.
C1_LoanedWithinTotalUntilTriggeredClaim ==
    \A id \in DOMAIN plans :
        plans[id].total_loaned > plans[id].total_amount
            => Triggered(id) /\ ClaimedFrom(id)

\* an untriggered plan with money out on loan has just paid a claim
C1_Witness ==
    /\ last = [op |-> "claim_inheritance_plan", res |-> "Ok"]
    /\ 1 \in DOMAIN plans
    /\ ~Triggered(1)
    /\ plans[1].total_loaned > 0
    /\ plans[1].total_loaned <= plans[1].total_amount

-----------------------------------------------------------------------------
(* A beneficiary claims once *)

ValidCodes == {c \in ClaimCodes : hash_claim_code(c).ok}

HasClaimed(id, email) == claim_key(id, hash_string(email)) \in DOMAIN claims

\* the invocation wrote nothing, even before the host decides what to keep
Untouched(r) == r.w = Vault

ClaimRecordsKept ==
    \A k \in DOMAIN claims : k \in DOMAIN claims' /\ claims'[k] = claims[k]

\* C2, as stated: once (plan_id, email) has a claim record, every claim call
\* with that plan_id and email and a claim code in range is rejected with
\* AlreadyClaimed.  After deactivate_inheritance_plan the rejection is
\* PlanNotActive, so this does not hold.
C2_RepeatedClaimAlreadyClaimed ==
    \A id \in PlanIds, email \in Emails, code \in ValidCodes :
        HasClaimed(id, email)
            => Run(claim_inheritance_plan(Vault, id, email, code)).res = "AlreadyClaimed"

\* C2, amended: a claim record, once written by a successful claim, is in every
\* later state unchanged; and in every state where (plan_id, email) has a
\* claim record, a claim call with that plan_id and email is rejected -- with
\* AlreadyClaimed while the plan is active, with PlanNotActive once it is
\* deactivated -- and leaves the storage, total_amount included, as it was.
C2_ClaimedOnce ==
    /\ [](\A id \in PlanIds, email \in Emails, code \in ValidCodes :
            HasClaimed(id, email) =>
                LET r == claim_inheritance_plan(Vault, id, email, code) IN
                /\ r.res = (IF plans[id].is_active THEN "AlreadyClaimed" ELSE "PlanNotActive")
                /\ Untouched(r))
    /\ [][ClaimRecordsKept]_vars

\* a beneficiary who has claimed has just tried again and been turned away
C2_Witness ==
    /\ last = [op |-> "claim_inheritance_plan", res |-> "AlreadyClaimed"]
    /\ \E id \in PlanIds, email \in Emails : HasClaimed(id, email)

-----------------------------------------------------------------------------
(* The gates of a claim: elapsed time and liquidity, both lifted by a trigger *)

GateNext ==
    \/ InitializeAdmin
    \/ CreatePlan(MaxPlans, {100}, Methods, {BenHalves}, {{}})
    \/ Tick(Instants)
    \/ Lend(FirstPlan, {98})
    \/ Trigger({AdminAddr}, FirstPlan)
    \/ Claim(FirstPlan, {"al@x"}, {111111})

SpecGate == Init /\ [][GateNext]_vars

\* the waiting time of each distribution method, in days
WaitDays(method) ==
    CASE method = "LumpSum"   -> 0
      [] method = "Monthly"   -> 30
      [] method = "Quarterly" -> 90
      [] method = "Yearly"    -> 365

Waited(id) == now - plans[id].created_at >= WaitDays(plans[id].distribution_method) * 86400

\* (email, code) are those of a beneficiary of plan id
Registered(id, email, code) ==
    find_beneficiary(plans[id].beneficiaries, 0, hash_string(email),
                     hash_claim_code(code).hash) >= 0

ShareOf(id, email, code) ==
    LET i == find_beneficiary(plans[id].beneficiaries, 0, hash_string(email),
                              hash_claim_code(code).hash)
    IN (plans[id].total_amount * plans[id].beneficiaries[i + 1].allocation_bp) \div 10000

\* C3: for an active plan and a registered beneficiary who has not claimed and
\* presents the right email and claim code: with no trigger record the claim
\* fails with ClaimNotAllowedYet while less than the method's waiting time
\* (LumpSum none, Monthly 30 days, Quarterly 90, Yearly 365) has passed since
\* created_at; once it has passed, the claim fails with InsufficientLiquidity
\* when the beneficiary's share exceeds total_amount - total_loaned and
\* succeeds otherwise; with a trigger record the claim succeeds whatever time
\* has passed and whatever is on loan.
C3_ClaimGates ==
    \A id \in DOMAIN plans, email \in Emails, code \in ValidCodes :
        (plans[id].is_active /\ Registered(id, email, code) /\ ~HasClaimed(id, email))
        => LET r == Run(claim_inheritance_plan(Vault, id, email, code)).res
               short == ShareOf(id, email, code)
                           > plans[id].total_amount - plans[id].total_loaned
           IN  r = (CASE Triggered(id) -> "Ok"
                      [] ~Triggered(id) /\ ~Waited(id) -> "ClaimNotAllowedYet"
                      [] ~Triggered(id) /\ Waited(id) /\ short -> "InsufficientLiquidity"
                      [] OTHER -> "Ok")

\* a claim has just succeeded on a triggered Yearly plan, inside its first year
\* and with more on loan than the plan now holds
C3_Witness ==
    /\ last = [op |-> "claim_inheritance_plan", res |-> "Ok"]
    /\ 1 \in DOMAIN plans
    /\ Triggered(1)
    /\ plans[1].distribution_method = "Yearly"
    /\ now - plans[1].created_at < 365 * 86400
    /\ plans[1].total_loaned > plans[1].total_amount

-----------------------------------------------------------------------------
(* Repaying a loan and its collateral *)

RepayAmounts == {0, 60, 100}

BorrowNext ==
    \/ BorrowInitialize
    \/ WhitelistCollateral({BorrowAdmin})
    \/ CreateLoan({BorrowerA, BorrowerB}, {100}, {150})
    \/ RepayLoan(LoanIds, RepayAmounts)

SpecBorrow == Init /\ [][BorrowNext]_vars

\* the collateral the active loans up to id n are backed by
RECURSIVE ActiveCollateral(_)
ActiveCollateral(n) ==
    IF n <= 0 THEN 0
    ELSE ActiveCollateral(n - 1)
         + (IF n \in DOMAIN loans /\ loans[n].is_active THEN loans[n].collateral_amount ELSE 0)

\* C4, as stated: a repay_loan call on a loan that is already inactive moves
\* no collateral, and the Borrowing Vault's collateral balance is at least the
\* sum of collateral_amount over the active loans.  repay_loan never looks at
\* is_active, so a repayment of a settled loan returns its collateral again,
\* out of what backs the other loans.
C4_CollateralReturnedOnce ==
    /\ \A id \in DOMAIN loans, amount \in RepayAmounts :
          ~loans[id].is_active
              => RunB(repay_loan(Borrowing, id, amount)).w.bal = collateral
    /\ collateral[BorrowingAddr] >= ActiveCollateral(MaxLoans + 1)

\* a borrower holds more collateral than they started with, and an active loan
\* is left without its collateral in the contract
C4_Witness ==
    /\ bLast = [op |-> "repay_loan", res |-> "Ok"]
    /\ \E a \in {BorrowerA, BorrowerB} : collateral[a] > BorrowerMint
    /\ collateral[BorrowingAddr] < ActiveCollateral(MaxLoans + 1)

-----------------------------------------------------------------------------
(* The pool's liquidity and its utilization cap *)

Lenders == {LenderA, LenderB}

PoolNext ==
    \/ PoolInitialize({8000})
    \/ PoolWhitelist({PoolAdmin})
    \/ PoolDeposit(Lenders, {2000})
    \/ PoolWithdraw(Lenders, {1000})
    \/ PoolBorrow({PoolBorrower}, {1600, 2400, 3200}, {4800})
    \/ PoolRepay({PoolBorrower})
    \/ WithdrawPriority({PoolAdmin}, {5})
    \/ PoolTick({SECONDS_IN_YEAR})

SpecPool == Init /\ [][PoolNext]_vars

PoolReady == "Pool" \in DOMAIN lInstance
ThePool == lInstance["Pool"]

ShareCounts == {0, 1, 500, 1000, 2000, 3000}

\* C5: total_borrowed <= total_deposits in every reachable state of the pool;
\* and a depositor redeeming shares they hold for more than
\* total_deposits - total_borrowed is refused with InsufficientLiquidity, the
\* pool state and the depositor's shares left as they were.
C5_BorrowedWithinDeposits ==
    PoolReady =>
        /\ ThePool.total_borrowed <= ThePool.total_deposits
        /\ \A d \in Lenders, n \in ShareCounts :
              LET amount == (n * ThePool.total_deposits) \div ThePool.total_shares IN
              (n > 0 /\ n <= GetOr(shares, d, 0)
                     /\ amount > ThePool.total_deposits - ThePool.total_borrowed)
              => LET r == pool_withdraw(Lending, d, n) IN
                 /\ r.res = "InsufficientLiquidity"
                 /\ r.w = Lending

\* a depositor has just been refused because the money is out on loan
C5_Witness ==
    /\ lLast = [op |-> "withdraw", res |-> "InsufficientLiquidity"]
    /\ PoolReady
    /\ ThePool.total_borrowed > 0
    /\ ThePool.total_borrowed < ThePool.total_deposits

BorrowProbe == {1, 800, 1600, 1601, 2400, 2401, 3200, 3201, 4000}

\* the utilization, in basis points rounded down, the pool would have with
\* amount more on loan
UtilizationWith(amount) ==
    ((ThePool.total_borrowed + amount) * 10000) \div ThePool.total_deposits

\* a borrow of amount by b against collateral c that passes every check made
\* before the utilization cap: a whitelisted collateral the borrower holds and
\* that covers the collateral ratio, no open loan, and amount within the idle
\* liquidity
Borrowable(b, amount, c) ==
    /\ PoolReady
    /\ amount > 0
    /\ GetOr(lWhitelist, PoolCollId, FALSE)
    /\ b \notin DOMAIN loanOf
    /\ c >= (amount * 15000) \div 10000
    /\ poolColl[b] >= c
    /\ amount <= ThePool.total_deposits - ThePool.total_borrowed

\* C6: borrow succeeds only if floor((total_borrowed + amount) * 10000 /
\* total_deposits) <= utilization_cap_bps; an otherwise acceptable borrow that
\* would take the utilization above the cap fails with UtilizationCapExceeded
\* and writes nothing; one that lands on or below the cap succeeds; and after
\* a successful borrow the pool's utilization is at most the cap.
C6_UtilizationCap ==
    /\ \A b \in {PoolBorrower}, amount \in BorrowProbe, c \in {4800, 6000} :
          LET r == pool_borrow(Lending, b, amount, PoolCollId, c, 1000) IN
          /\ r.res = "Ok" => UtilizationWith(amount) <= ThePool.utilization_cap_bps
          /\ Borrowable(b, amount, c) =>
                IF UtilizationWith(amount) > ThePool.utilization_cap_bps
                THEN r.res = "UtilizationCapExceeded" /\ r.w = Lending
                ELSE r.res = "Ok"
    /\ lLast = [op |-> "borrow", res |-> "Ok"] =>
          (ThePool.total_borrowed * 10000) \div ThePool.total_deposits
              <= ThePool.utilization_cap_bps

\* a borrow has just succeeded that left the pool exactly on its cap, and one
\* token more would have been refused
C6_Witness ==
    /\ lLast = [op |-> "borrow", res |-> "Ok"]
    /\ (ThePool.total_borrowed * 10000) \div ThePool.total_deposits
           = ThePool.utilization_cap_bps
    /\ ((ThePool.total_borrowed + 1) * 10000) \div ThePool.total_deposits
           > ThePool.utilization_cap_bps

-----------------------------------------------------------------------------
(* The beneficiaries of a plan and their allocations *)

BenTenths ==
    [i \in 1..10 |-> Ben("al@x", 111111, 1000)]

NewBen(bp) == Ben("eve@xx", 333333, bp)
AddInputs == {NewBen(bp) : bp \in {0, 1000, 2500, 5000, 7501}}

BenefNext ==
    \/ InitializeAdmin
    \/ CreatePlan(MaxPlans, {100}, {"LumpSum"}, {BenWhole, BenHalves, BenTenths}, {{}})
    \/ AddBeneficiary({OwnerAddr}, FirstPlan, AddInputs)
    \/ RemoveBeneficiary({OwnerAddr}, FirstPlan, {0, 1, 9, 10})

SpecBenef == Init /\ [][BenefNext]_vars

-----------------------------------------------------------------------------
(* Creating a plan: the fee, and what a refused creation leaves behind *)

MaxCreated == 3     \* the creation specification creates plans while NextPlanId <= MaxCreated

CreateAmounts == {0, 1, 49, 50, 99, 100, 250}
CreateLists   == {BenWhole, BenHalves, BenShort, BenNoMail, BenBadCode, <<>>}
Refusals      == {{}, {1}, {2}}    \* which of the two token transfers the token refuses

CreateNext ==
    \/ InitializeAdmin
    \/ CreatePlan(MaxCreated, CreateAmounts, {"LumpSum"}, CreateLists, Refusals)

SpecCreate == Init /\ [][CreateNext]_vars

CreationOf(amount, bens, refused) ==
    create_inheritance_plan(Vault, Params(OwnerAddr, amount, "LumpSum", bens, TRUE), refused)

\* C8: a create_inheritance_plan call with input total_amount that succeeds
\* has charged fee = floor(total_amount * 200 / 10000): the admin's balance is
\* up by fee, the contract's by total_amount - fee, the owner's down by
\* total_amount, and the stored plan's total_amount is total_amount - fee; and
\* with an admin set, a call whose net amount is 0 is rejected with
\* InvalidTotalAmount.
C8_CreationFee ==
    \A amount \in CreateAmounts, bens \in CreateLists, refused \in Refusals :
        LET r == Run(CreationOf(amount, bens, refused))
            fee == (amount * 200) \div 10000
        IN  /\ r.res = "Ok" =>
                  /\ r.w.balances[admin] = balances[admin] + fee
                  /\ r.w.balances[VaultAddr] = balances[VaultAddr] + (amount - fee)
                  /\ r.w.balances[OwnerAddr] = balances[OwnerAddr] - amount
                  /\ r.w.plans[nextPlanId].total_amount = amount - fee
            /\ (admin # NoAddr /\ amount - fee = 0) => r.res = "InvalidTotalAmount"

\* a plan has just been created and the admin holds a fee
C8_Witness ==
    /\ last = [op |-> "create_inheritance_plan", res |-> "Ok"]
    /\ balances[AdminAddr] > 0
    /\ balances[VaultAddr] > 0

\* C9: a create_inheritance_plan call that returns an error -- AdminNotSet,
\* InvalidTotalAmount, InsufficientBalance, FeeTransferFailed on the first or
\* the second transfer, or a beneficiary validation error raised after both
\* transfers -- leaves every token balance, NextPlanId, the owner's plan list
\* and all stored plans as they were.
C9_FailedCreationLeavesNothing ==
    \A amount \in CreateAmounts, bens \in CreateLists, refused \in Refusals :
        LET r == Run(CreationOf(amount, bens, refused)) IN
        r.res # "Ok" =>
            /\ r.w.balances = balances
            /\ r.w.nextPlanId = nextPlanId
            /\ r.w.userPlans = userPlans
            /\ r.w.plans = plans

\* a creation has just been refused for its beneficiaries, after both transfers
\* had been made, and the owner's money is where it was
C9_Witness ==
    /\ last = [op |-> "create_inheritance_plan", res |-> "AllocationPercentageMismatch"]
    /\ admin # NoAddr
    /\ CreationOf(100, BenShort, {}).w.balances # balances
    /\ balances[OwnerAddr] + balances[AdminAddr] + balances[VaultAddr] = OwnerMint

-----------------------------------------------------------------------------
(* Triggering an inheritance *)

TriggerNext ==
    \/ InitializeAdmin
    \/ CreatePlan(MaxPlans, {100}, {"LumpSum"}, {BenHalves}, {{}})
    \/ Tick({1000, 2000})
    \/ Lend(FirstPlan, {40, 98})
    \/ Trigger({AdminAddr}, FirstPlan)
    \/ Recall({AdminAddr}, FirstPlan, {20, 40})
    \/ Liquidate({AdminAddr}, FirstPlan)
    \/ Claim(FirstPlan, {"al@x"}, {111111})
    \/ Deactivate({OwnerAddr}, FirstPlan)

SpecTrigger == Init /\ [][TriggerNext]_vars

TriggerRecordKept ==
    \A id \in DOMAIN triggers :
        /\ id \in DOMAIN triggers'
        /\ triggers'[id].triggered_at = triggers[id].triggered_at
        /\ triggers'[id].original_loaned = triggers[id].original_loaned

\* C10: with an admin set, trigger_inheritance called by the admin succeeds
\* exactly when the plan exists, is active and has no trigger record; on
\* success the plan's is_lendable is false and the new trigger record has
\* triggered_at = now, loan_freeze_active = true, recall_attempted = false,
\* liquidation_triggered = false, original_loaned = plan.total_loaned and
\* recalled_amount = settled_amount = 0; a further trigger_inheritance on the
\* (still active) plan fails with InheritanceAlreadyTriggered; and from then on
\* the record is never removed and its triggered_at and original_loaned never
\* change.
C10_TriggerOnce ==
    /\ [](admin # NoAddr =>
            \A id \in PlanIds :
                LET r == Run(trigger_inheritance(Vault, admin, id)) IN
                /\ r.res = "Ok" <=> (/\ id \in DOMAIN plans
                                     /\ plans[id].is_active
                                     /\ id \notin DOMAIN triggers)
                /\ r.res = "Ok" =>
                      /\ r.w.plans[id].is_lendable = FALSE
                      /\ r.w.triggers[id] = [triggered_at          |-> now,
                                             loan_freeze_active    |-> TRUE,
                                             recall_attempted      |-> FALSE,
                                             liquidation_triggered |-> FALSE,
                                             original_loaned       |-> plans[id].total_loaned,
                                             recalled_amount       |-> 0,
                                             settled_amount        |-> 0]
                /\ (id \in DOMAIN triggers /\ plans[id].is_active)
                      => r.res = "InheritanceAlreadyTriggered")
    /\ [][TriggerRecordKept]_vars

\* a second trigger has just been refused, after a recall changed what is on
\* loan and the clock moved on from the time of the trigger
C10_Witness ==
    /\ last = [op |-> "trigger_inheritance", res |-> "InheritanceAlreadyTriggered"]
    /\ 1 \in DOMAIN triggers
    /\ triggers[1].original_loaned > plans[1].total_loaned
    /\ triggers[1].triggered_at < now

-----------------------------------------------------------------------------
(* What a claim pays and what it publishes *)

\* the registered beneficiaries of plan id with the digests of (email, code)
Matching(id, email, code) ==
    {i \in 1..Len(plans[id].beneficiaries) :
        /\ plans[id].beneficiaries[i].hashed_email = hash_string(email)
        /\ hash_claim_code(code).ok
        /\ plans[id].beneficiaries[i].hashed_claim_code = hash_claim_code(code).hash}

\* C11: a successful claim_inheritance_plan by a beneficiary with allocation_bp
\* on a plan whose total_amount is T lowers total_amount by exactly
\* floor(T * allocation_bp / 10000), leaves total_loaned and the beneficiary
\* list as they were, and publishes exactly one event, CLAIM/SUCCESS with
\* (plan_id, hashed_email, base_payout); a failed claim publishes none.
C11_ClaimPayout ==
    \A id \in PlanIds, email \in Emails, code \in ClaimCodes :
        LET r == claim_inheritance_plan(Vault, id, email, code) IN
        IF r.res = "Ok"
        THEN \E i \in Matching(id, email, code) :
                LET T == plans[id].total_amount
                    payout == (T * plans[id].beneficiaries[i].allocation_bp) \div 10000
                IN /\ r.w.plans[id].total_amount = T - payout
                   /\ r.w.plans[id].total_loaned = plans[id].total_loaned
                   /\ r.w.plans[id].beneficiaries = plans[id].beneficiaries
                   /\ r.w.events = <<<<"CLAIM", "SUCCESS", <<id, hash_string(email), payout>>>>>>
        ELSE r.w.events = <<>>

\* the second beneficiary has just been paid half of 49, rounded down to 24
C11_Witness ==
    /\ last = [op |-> "claim_inheritance_plan", res |-> "Ok"]
    /\ 1 \in DOMAIN plans
    /\ Cardinality(DOMAIN claims) = 2
    /\ plans[1].total_amount = 25

-----------------------------------------------------------------------------
(* Who can claim: the match on the two digests *)

\* "zed@" is registered nowhere and is as long as "al@x"
MatchEmails == {"al@x", "bob@x", "zed@", "eve@xx"}
MatchCodes  == {111111, 222222, 333333}

MatchNext ==
    \/ InitializeAdmin
    \/ CreatePlan(MaxPlans, {100}, {"LumpSum"}, {BenHalves}, {{}})
    \/ RemoveBeneficiary({OwnerAddr}, FirstPlan, {0, 1})
    \/ Deposit({OwnerAddr}, FirstPlan, {50})
    \/ Claim(FirstPlan, MatchEmails, MatchCodes)

SpecMatch == Init /\ [][MatchNext]_vars

\* plan id still lists a beneficiary that was registered as (email, code);
\* the plans of this specification are created from BenHalves, whose claim
\* codes differ, so the digest of the code identifies the entry
ListedAs(id, email, code) ==
    /\ \E k \in 1..Len(BenHalves) :
          BenHalves[k].email = email /\ BenHalves[k].claim_code = code
    /\ \E i \in 1..Len(plans[id].beneficiaries) :
          plans[id].beneficiaries[i].hashed_claim_code = hash_claim_code(code).hash

\* C12: claim_inheritance_plan succeeds only if the plan's current beneficiary
\* list has an entry whose hashed email and hashed claim code are the digests
\* of the call's email and claim code; on an active plan, for an email that
\* has not claimed, a call with a wrong claim code, an unknown email or the
\* email and code of a removed beneficiary fails with BeneficiaryNotFound and
\* changes nothing.
C12_ClaimNeedsListedBeneficiary ==
    \A id \in PlanIds \cap DOMAIN plans, email \in MatchEmails, code \in MatchCodes :
        LET r == claim_inheritance_plan(Vault, id, email, code) IN
        /\ r.res = "Ok" => Matching(id, email, code) # {}
        /\ (plans[id].is_active /\ ~HasClaimed(id, email) /\ ~ListedAs(id, email, code))
              => r.res = "BeneficiaryNotFound" /\ Untouched(r)

\* "al@x" is listed with code 111111 and has not claimed; the claim of the
\* unregistered "zed@" with that code goes through
C12_Witness ==
    /\ 1 \in DOMAIN plans
    /\ ListedAs(1, "al@x", 111111)
    /\ ~ListedAs(1, "zed@", 111111)
    /\ Run(claim_inheritance_plan(Vault, 1, "zed@", 111111)).res = "Ok"

-----------------------------------------------------------------------------
(* Recalling and writing off the loans of a triggered plan *)

RecallAmounts == {0, 1, 20, 40, 41, 98, 99}

\* the invocation changed, of the storage, only the record of plan id and its
\* trigger record; the token balances are as they were
OnlyPlanAndTrigger(r, id) ==
    /\ r.w.admin = admin
    /\ r.w.nextPlanId = nextPlanId
    /\ DOMAIN r.w.plans = DOMAIN plans
    /\ \A j \in DOMAIN plans : j # id => r.w.plans[j] = plans[j]
    /\ DOMAIN r.w.triggers = DOMAIN triggers
    /\ \A j \in DOMAIN triggers : j # id => r.w.triggers[j] = triggers[j]
    /\ r.w.userPlans = userPlans
    /\ r.w.claims = claims
    /\ r.w.claimedPlans = claimedPlans
    /\ r.w.deactivated = deactivated
    /\ r.w.kyc = kyc
    /\ r.w.balances = balances

\* C13: recall_loan(admin, plan_id, amount) on an existing plan fails with
\* InheritanceNotTriggered when there is no trigger record, else with
\* NoOutstandingLoans when total_loaned is 0, else with LoanRecallFailed when
\* amount is 0 or above total_loaned, each time changing nothing; otherwise it
\* succeeds, lowers total_loaned by amount, raises recalled_amount by amount,
\* sets recall_attempted, and leaves total_amount, settled_amount, the
\* beneficiaries, every other record and every token balance as they were.
C13_RecallLoan ==
    \A id \in PlanIds \cap DOMAIN plans, amount \in RecallAmounts :
        admin = AdminAddr =>
            LET r == recall_loan(Vault, AdminAddr, id, amount)
                plan == plans[id]
            IN
            IF ~Triggered(id)
            THEN r.res = "InheritanceNotTriggered" /\ Untouched(r)
            ELSE IF plan.total_loaned = 0
            THEN r.res = "NoOutstandingLoans" /\ Untouched(r)
            ELSE IF amount = 0 \/ amount > plan.total_loaned
            THEN r.res = "LoanRecallFailed" /\ Untouched(r)
            ELSE /\ r.res = "Ok"
                 /\ r.w.plans[id] = [plan EXCEPT !.total_loaned = plan.total_loaned - amount]
                 /\ r.w.triggers[id] =
                        [triggers[id] EXCEPT !.recall_attempted = TRUE,
                                             !.recalled_amount = triggers[id].recalled_amount + amount]
                 /\ OnlyPlanAndTrigger(r, id)

\* part of the loan has just been recalled, the rest is still out
C13_Witness ==
    /\ last = [op |-> "recall_loan", res |-> "Ok"]
    /\ 1 \in DOMAIN plans
    /\ Triggered(1)
    /\ triggers[1].recall_attempted
    /\ triggers[1].recalled_amount > 0
    /\ plans[1].total_loaned > 0

\* C14: liquidation_fallback(admin, plan_id) on an existing plan fails with
\* InheritanceNotTriggered when there is no trigger record, else with
\* NoOutstandingLoans when total_loaned is 0, changing nothing; otherwise it
\* succeeds and, with L the old total_loaned, total_amount becomes
\* max(0, total_amount - L), total_loaned becomes 0, settled_amount grows by L
\* and liquidation_triggered is set, so that get_claimable_amount is then
\* total_amount.
C14_LiquidationFallback ==
    \A id \in PlanIds \cap DOMAIN plans :
        admin = AdminAddr =>
            LET r == liquidation_fallback(Vault, AdminAddr, id)
                plan == plans[id]
                L == plan.total_loaned
            IN
            IF ~Triggered(id)
            THEN r.res = "InheritanceNotTriggered" /\ Untouched(r)
            ELSE IF L = 0
            THEN r.res = "NoOutstandingLoans" /\ Untouched(r)
            ELSE /\ r.res = "Ok"
                 /\ r.w.plans[id] =
                        [plan EXCEPT !.total_amount = IF plan.total_amount > L
                                                      THEN plan.total_amount - L ELSE 0,
                                     !.total_loaned = 0]
                 /\ r.w.triggers[id] =
                        [triggers[id] EXCEPT !.liquidation_triggered = TRUE,
                                             !.settled_amount = triggers[id].settled_amount + L]
                 /\ get_claimable_amount(r.w, id) = r.w.plans[id].total_amount
                 /\ OnlyPlanAndTrigger(r, id)

\* a loan larger than what a claim left in the plan has just been written off
C14_Witness ==
    /\ last = [op |-> "liquidation_fallback", res |-> "Ok"]
    /\ 1 \in DOMAIN plans
    /\ Triggered(1)
    /\ triggers[1].liquidation_triggered
    /\ triggers[1].settled_amount > 49
    /\ ClaimedFrom(1)
    /\ plans[1].total_amount = 0
    /\ plans[1].total_loaned = 0

\* the accumulators of every trigger record keep or raise their values
AccumulatorsKept ==
    \A id \in DOMAIN triggers :
        /\ id \in DOMAIN triggers'
        /\ triggers'[id].original_loaned = triggers[id].original_loaned
        /\ triggers'[id].recalled_amount >= triggers[id].recalled_amount
        /\ triggers'[id].settled_amount >= triggers[id].settled_amount

\* C15: for every triggered plan, after any interleaving of recall_loan,
\* liquidation_fallback, claim_inheritance_plan, deposit and withdraw (and
\* deactivation) following the trigger,
\* original_loaned = recalled_amount + settled_amount + plan.total_loaned,
\* and recalled_amount and settled_amount never decrease.
C15_LoanAccounting ==
    /\ [](\A id \in DOMAIN triggers :
            triggers[id].original_loaned =
                triggers[id].recalled_amount + triggers[id].settled_amount
                    + plans[id].total_loaned)
    /\ [][AccumulatorsKept]_vars

\* a loan partly recalled, the rest written off
C15_Witness ==
    /\ 1 \in DOMAIN triggers
    /\ triggers[1].recalled_amount > 0
    /\ triggers[1].settled_amount > 0
    /\ triggers[1].original_loaned = 98
    /\ plans[1].total_loaned = 0

-----------------------------------------------------------------------------
(* Deactivation is terminal *)

DepositAmounts == {1, 50, 500}

InactiveStays ==
    \A id \in DOMAIN plans :
        ~plans[id].is_active => id \in DOMAIN plans' /\ ~plans'[id].is_active

\* C16: once deactivate_inheritance_plan has succeeded for a plan, is_active
\* is false in every later state, and on that plan claim_inheritance_plan,
\* trigger_inheritance by the admin and deposit of a positive amount by the
\* owner fail with PlanNotActive and deactivate_inheritance_plan by the owner
\* fails with PlanAlreadyDeactivated, none of them changing anything.
C16_DeactivationTerminal ==
    /\ [](\A id \in PlanIds \cap DOMAIN plans :
            ~plans[id].is_active =>
                /\ \A email \in Emails, code \in ClaimCodes :
                      LET r == claim_inheritance_plan(Vault, id, email, code) IN
                      r.res = "PlanNotActive" /\ Untouched(r)
                /\ admin = AdminAddr =>
                      LET r == trigger_inheritance(Vault, AdminAddr, id) IN
                      r.res = "PlanNotActive" /\ Untouched(r)
                /\ \A amount \in DepositAmounts :
                      LET r == deposit(Vault, plans[id].owner, id, amount) IN
                      r.res = "PlanNotActive" /\ Untouched(r)
                /\ LET r == deactivate_inheritance_plan(Vault, plans[id].owner, id) IN
                   r.res = "PlanAlreadyDeactivated" /\ Untouched(r))
    /\ [][InactiveStays]_vars

\* the owner has just tried to deposit into the plan they deactivated
C16_Witness ==
    /\ last = [op |-> "deposit", res |-> "PlanNotActive"]
    /\ 1 \in DOMAIN plans
    /\ ~plans[1].is_active
    /\ InSeq(1, deactivated)

-----------------------------------------------------------------------------
(* The KYC record of a user *)

KycUsers == {OwnerAddr, OtherAddr}

KycNext ==
    \/ InitializeAdmin
    \/ SubmitKyc(KycUsers)
    \/ ApproveKyc({AdminAddr}, KycUsers)
    \/ RejectKyc({AdminAddr}, KycUsers)
    \/ Tick({1000, 2000})

SpecKyc == Init /\ [][KycNext]_vars

KycOf(user) == IF user \in DOMAIN kyc THEN kyc[user] ELSE NoKyc

\* C18: for every user, approved implies submitted, rejected implies
\* submitted, and approved and rejected are never both true; approve_kyc and
\* reject_kyc by the admin fail with KycNotSubmitted before submission, with
\* KycAlreadyApproved / KycAlreadyRejected when their own flag is set, and
\* fail when the opposite flag is set.
C18_KycLifecycle ==
    \A user \in KycUsers :
        /\ KycOf(user).approved => KycOf(user).submitted
        /\ KycOf(user).rejected => KycOf(user).submitted
        /\ ~(KycOf(user).approved /\ KycOf(user).rejected)
        /\ admin = AdminAddr =>
              LET a == approve_kyc(Vault, AdminAddr, user)
                  r == reject_kyc(Vault, AdminAddr, user)
              IN /\ ~KycOf(user).submitted =>
                        a.res = "KycNotSubmitted" /\ r.res = "KycNotSubmitted"
                 /\ KycOf(user).approved => a.res = "KycAlreadyApproved" /\ r.res # "Ok"
                 /\ KycOf(user).rejected => r.res = "KycAlreadyRejected" /\ a.res # "Ok"

\* a submission was approved and the admin has just rejected it as well
C18_Witness ==
    /\ last = [op |-> "reject_kyc", res |-> "Ok"]
    /\ \E user \in KycUsers : KycOf(user).approved /\ KycOf(user).rejected

-----------------------------------------------------------------------------
(* Who may call what *)

AuthNext ==
    \/ InitializeAdminBy({AdminAddr, OtherAddr})
    \/ CreatePlan(MaxPlans, {100}, {"LumpSum"}, {BenHalves}, {{}})
    \/ RemoveBeneficiary({OwnerAddr, OtherAddr}, FirstPlan, {0})
    \/ Deposit({OtherAddr}, FirstPlan, {50})
    \/ Deactivate({OwnerAddr, OtherAddr}, FirstPlan)
    \/ Trigger({AdminAddr, OtherAddr}, FirstPlan)
    \/ Recall({AdminAddr, OtherAddr}, FirstPlan, {20})
    \/ Lend(FirstPlan, {40})
    \/ SubmitKyc({OwnerAddr})
    \/ ApproveKyc({AdminAddr, OtherAddr}, {OwnerAddr})

SpecAuth == Init /\ [][AuthNext]_vars

Refused(r, e) == r.res = e /\ Untouched(r)

\* what require_admin answers to a caller who is not the stored admin
NotTheAdmin == IF admin = NoAddr THEN "AdminNotSet" ELSE "NotAdmin"

AdminKept == admin # NoAddr => admin' = admin

\* C17: on an existing plan, add_beneficiary, remove_beneficiary, deposit and
\* withdraw of a positive amount, set_lendable and deactivate_inheritance_plan
\* called by anyone but the plan's owner fail with Unauthorized;
\* trigger_inheritance, recall_loan, liquidation_fallback, approve_kyc and
\* reject_kyc called by anyone but the stored admin fail with NotAdmin, or
\* with AdminNotSet when no admin is stored; none of these calls changes a
\* plan, a trigger record, a KYC record or a token balance; and the stored
\* admin, once set, never changes.
C17_Authorization ==
    /\ [](/\ \A id \in PlanIds \cap DOMAIN plans : \A o \in Addresses \ {plans[id].owner} :
                /\ \A input \in AddInputs :
                      Refused(add_beneficiary(Vault, o, id, input), "Unauthorized")
                /\ \A index \in 0..1 :
                      Refused(remove_beneficiary(Vault, o, id, index), "Unauthorized")
                /\ \A amount \in DepositAmounts :
                      /\ Refused(deposit(Vault, o, id, amount), "Unauthorized")
                      /\ Refused(withdraw(Vault, o, id, amount), "Unauthorized")
                /\ \A flag \in BOOLEAN :
                      Refused(set_lendable(Vault, o, id, flag), "Unauthorized")
                /\ Refused(deactivate_inheritance_plan(Vault, o, id), "Unauthorized")
          /\ \A a \in Addresses \ {admin} :
                /\ \A id \in PlanIds :
                      /\ Refused(trigger_inheritance(Vault, a, id), NotTheAdmin)
                      /\ Refused(liquidation_fallback(Vault, a, id), NotTheAdmin)
                      /\ \A amount \in RecallAmounts :
                            Refused(recall_loan(Vault, a, id, amount), NotTheAdmin)
                /\ \A user \in KycUsers :
                      /\ Refused(approve_kyc(Vault, a, user), NotTheAdmin)
                      /\ Refused(reject_kyc(Vault, a, user), NotTheAdmin))
    /\ [][AdminKept]_vars

\* a stranger has just tried to recall the loan of a triggered plan
C17_Witness ==
    /\ last = [op |-> "recall_loan", res |-> "NotAdmin"]
    /\ admin = AdminAddr
    /\ 1 \in DOMAIN plans
    /\ Triggered(1)
    /\ plans[1].total_loaned >= 20
    /\ OwnerAddr \in DOMAIN kyc

-----------------------------------------------------------------------------
(* Shares and deposits of the pool *)

\* C19: in every state reachable by deposit, withdraw, borrow, repay and
\* withdraw_priority calls, total_shares = 0 if and only if
\* total_deposits = 0.
C19_SharesIffDeposits ==
    PoolReady => ((ThePool.total_shares = 0) <=> (ThePool.total_deposits = 0))

\* every lender has redeemed all their shares: the 1000 shares locked by the
\* first deposit, and the deposits behind them, are what is left
C19_Witness ==
    /\ PoolReady
    /\ lLast = [op |-> "withdraw", res |-> "Ok"]
    /\ \A d \in Lenders : GetOr(shares, d, 0) = 0
    /\ ThePool.total_shares = MINIMUM_LIQUIDITY
    /\ ThePool.total_deposits > 0

DepositProbe == {0, 1, 500, 1000, 1001, 2000}

\* C20: a deposit by a lender who holds the amount is rejected with
\* InvalidAmount, nothing changed, when amount is 0, when the pool is empty and
\* amount <= 1000, or when the pool is not empty and
\* floor(amount * total_shares / total_deposits) is 0; otherwise it succeeds:
\* on an empty pool the depositor is credited amount - 1000 shares and
\* total_shares and total_deposits both become amount, on a non-empty pool the
\* depositor is credited floor(amount * total_shares / total_deposits) shares,
\* computed on the pool before the deposit.
C20_DepositShares ==
    PoolReady =>
        \A d \in Lenders, amount \in DepositProbe :
            poolToken[d] >= amount =>
                LET r == RunL(pool_deposit(Lending, d, amount))
                    ts == ThePool.total_shares
                    td == ThePool.total_deposits
                    minted == IF ts = 0 THEN amount - 1000 ELSE (amount * ts) \div td
                IN
                IF amount = 0 \/ (ts = 0 /\ amount <= 1000) \/ (ts # 0 /\ minted = 0)
                THEN r.res = "InvalidAmount" /\ r.w = Lending
                ELSE /\ r.res = "Ok"
                     /\ pool_deposit(Lending, d, amount).val = minted
                     /\ r.w.shares[d] = GetOr(shares, d, 0) + minted
                     /\ \A o \in DOMAIN shares : o # d => r.w.shares[o] = shares[o]
                     /\ r.w.instance["Pool"].total_deposits = td + amount
                     /\ r.w.instance["Pool"].total_shares =
                            (IF ts = 0 THEN amount ELSE ts + minted)
                     /\ r.w.bal[d] = poolToken[d] - amount

\* interest has made a share worth more than a token: the second lender's
\* 2000 tokens have just bought fewer than 2000 shares, and the first lender
\* holds a token that would buy none
C20_Witness ==
    /\ PoolReady
    /\ lLast = [op |-> "deposit", res |-> "Ok"]
    /\ ThePool.total_deposits > ThePool.total_shares
    /\ poolToken[LenderB] = 0
    /\ GetOr(shares, LenderB, 0) > 0
    /\ GetOr(shares, LenderB, 0) < 2000
    /\ poolToken[LenderA] >= 1
    /\ ThePool.total_shares \div ThePool.total_deposits = 0

-----------------------------------------------------------------------------
(* The locked shares *)

RECURSIVE SumOver(_, _)
SumOver(f, S) ==
    IF S = {} THEN 0
    ELSE LET x == CHOOSE y \in S : TRUE IN f[x] + SumOver(f, S \ {x})

GenesisDone == PoolReady /\ ThePool.total_shares # 0

GenesisStays == GenesisDone => GenesisDone'

\* C21: once the first deposit has been made, in every reachable state
\* total_shares = 1000 + the sum of Shares(a) over all depositors a, so
\* total_shares >= 1000; no depositor can redeem more shares than their own
\* (InsufficientShares, nothing changed), so the 1000 locked shares are never
\* withdrawn, and the pool never returns to total_shares = 0.
C21_LockedShares ==
    /\ [](GenesisDone =>
            /\ ThePool.total_shares = MINIMUM_LIQUIDITY + SumOver(shares, DOMAIN shares)
            /\ ThePool.total_shares >= MINIMUM_LIQUIDITY
            /\ \A d \in PoolAddresses, n \in ShareCounts :
                  n > GetOr(shares, d, 0) =>
                      LET r == pool_withdraw(Lending, d, n) IN
                      r.res = "InsufficientShares" /\ r.w = Lending)
    /\ [][GenesisStays]_vars

\* both lenders hold shares and one of them has just redeemed some
C21_Witness ==
    /\ GenesisDone
    /\ lLast = [op |-> "withdraw", res |-> "Ok"]
    /\ GetOr(shares, LenderA, 0) > 0
    /\ GetOr(shares, LenderB, 0) > 0
    /\ ThePool.total_shares > MINIMUM_LIQUIDITY

-----------------------------------------------------------------------------
(* Round trips through the pool *)

\* no loan is open and no interest was ever added to the deposits
AtPar ==
    /\ PoolReady
    /\ ThePool.total_borrowed = 0
    /\ ThePool.total_deposits = ThePool.total_shares
    /\ ThePool.retained_yield = 0
    /\ ThePool.bad_debt_reserve = 0

\* the storage an invocation left behind, as the next invocation finds it
AsFound(l) == [l EXCEPT !.events = <<>>]

\* C22: in a pool with no loan outstanding and no interest ever accrued, a
\* depositor who deposits amount and then redeems all the shares the deposit
\* credited receives exactly amount (amount - 1000 for the first depositor),
\* and total_deposits and total_shares return to their values before the
\* deposit (plus the 1000 locked units after the first deposit).
C22_DepositWithdrawRoundTrip ==
    AtPar =>
        \A d \in Lenders, amount \in DepositProbe :
            LET dep == pool_deposit(Lending, d, amount) IN
            dep.res = "Ok" =>
                LET genesis == ThePool.total_shares = 0
                    lock == IF genesis THEN MINIMUM_LIQUIDITY ELSE 0
                    wd == pool_withdraw(AsFound(dep.w), d, dep.val)
                IN /\ dep.val = dep.w.shares[d] - GetOr(shares, d, 0)
                   /\ wd.res = "Ok"
                   /\ wd.val = amount - lock
                   /\ wd.w.bal[d] = poolToken[d] - lock
                   /\ wd.w.shares[d] = GetOr(shares, d, 0)
                   /\ wd.w.instance["Pool"].total_deposits = ThePool.total_deposits + lock
                   /\ wd.w.instance["Pool"].total_shares = ThePool.total_shares + lock
                   /\ wd.w.instance["Pool"].total_borrowed = 0

\* the first depositor put in 2000 and has just redeemed the 1000 shares it
\* brought: 1000 tokens back, 1000 locked in the pool
C22_Witness ==
    /\ AtPar
    /\ lLast = [op |-> "withdraw", res |-> "Ok"]
    /\ ThePool.total_shares = MINIMUM_LIQUIDITY
    /\ ThePool.total_deposits = MINIMUM_LIQUIDITY
    /\ \E d \in Lenders :
          /\ GetOr(shares, d, 0) = 0
          /\ poolToken[d] = LenderMint - MINIMUM_LIQUIDITY
          /\ \A o \in Lenders \ {d} : poolToken[o] = LenderMint

BorrowAmounts == {100, 1600, 2400, 3200}

\* C23: a borrow followed by repay by the same borrower at the same ledger
\* timestamp charges no interest and restores the pool: total_deposits,
\* retained_yield and bad_debt_reserve are unchanged, total_borrowed is back at
\* its value before the borrow, Loan(borrower) and LoanById(loan_id) are both
\* removed, and the borrower's collateral-token and loan-token balances are
\* what they were before the borrow.
C23_BorrowRepayRoundTrip ==
    PoolReady =>
        \A amount \in BorrowAmounts :
            LET bor == pool_borrow(Lending, PoolBorrower, amount, PoolCollId, 4800,
                                   1000)
            IN
            bor.res = "Ok" =>
                LET rep == pool_repay(AsFound(bor.w), PoolBorrower) IN
                /\ PoolBorrower \in DOMAIN bor.w.loan
                /\ bor.val \in DOMAIN bor.w.loanById
                /\ bor.w.instance["Pool"].total_borrowed = ThePool.total_borrowed + amount
                /\ rep.res = "Ok"
                /\ rep.val = amount
                /\ rep.w.instance["Pool"] = ThePool
                /\ PoolBorrower \notin DOMAIN rep.w.loan
                /\ bor.val \notin DOMAIN rep.w.loanById
                /\ rep.w.bal = poolToken
                /\ rep.w.cbal = poolColl

\* a loan has just been repaid at the instant it was taken: the borrower holds
\* what they started with and the pool has no loan
C23_Witness ==
    /\ PoolReady
    /\ lLast = [op |-> "repay", res |-> "Ok"]
    /\ now = 0
    /\ loanOf = <<>>
    /\ loanById = <<>>
    /\ ThePool.total_borrowed = 0
    /\ ThePool.total_deposits = ThePool.total_shares
    /\ poolToken[PoolBorrower] = PBorrowerMint
    /\ poolColl[PoolBorrower] = PCollMint

-----------------------------------------------------------------------------
(* The loans of the pool *)

PoolBorrowers == {PoolBorrower, LenderB}
LoanAmounts == {400, 800}

LoansNext ==
    \/ PoolInitialize({8000})
    \/ PoolWhitelist({PoolAdmin})
    \/ PoolDeposit({LenderA}, {500, 1500})
    \/ PoolWithdraw({LenderA}, {1000})
    \/ PoolBorrow(PoolBorrowers, LoanAmounts, {1200})
    \/ PoolRepay(PoolBorrowers)
    \/ PoolTick({SECONDS_IN_YEAR})

SpecLoans == Init /\ [][LoansNext]_vars

\* an open loan keeps its id and its rate as long as it is open
RatesKept ==
    \A b \in DOMAIN loanOf :
        (b \in DOMAIN loanOf' /\ loanOf'[b].loan_id = loanOf[b].loan_id)
            => /\ loanOf'[b].interest_rate_bps = loanOf[b].interest_rate_bps
               /\ loanById'[loanOf[b].loan_id].interest_rate_bps = loanOf[b].interest_rate_bps

\* C24: the interest_rate_bps stored in a loan at borrow is
\* base_rate_bps + floor(U * multiplier_bps / 10000), where
\* U = floor((total_borrowed before + amount) * 10000 / total_deposits) is the
\* utilization with the new loan added; and no later deposit, withdraw, borrow
\* or repay changes the stored rate of a loan that stays open.
C24_RateFrozenAtBorrow ==
    /\ [](PoolReady =>
            \A b \in PoolBorrowers, amount \in LoanAmounts :
                LET bor == pool_borrow(Lending, b, amount, PoolCollId, 1200, 1000) IN
                bor.res = "Ok" =>
                    LET U == ((ThePool.total_borrowed + amount) * 10000)
                                 \div ThePool.total_deposits
                        rate == ThePool.base_rate_bps + ((U * ThePool.multiplier_bps) \div 10000)
                    IN /\ bor.w.loan[b].interest_rate_bps = rate
                       /\ bor.w.loanById[bor.val].interest_rate_bps = rate)
    /\ [][RatesKept]_vars

\* two loans are open at different rates and the lender has just added to the
\* deposits
C24_Witness ==
    /\ PoolReady
    /\ lLast = [op |-> "deposit", res |-> "Ok"]
    /\ PoolBorrower \in DOMAIN loanOf
    /\ LenderB \in DOMAIN loanOf
    /\ loanOf[PoolBorrower].interest_rate_bps # loanOf[LenderB].interest_rate_bps
    /\ get_utilization_bps(ThePool.total_borrowed, ThePool.total_deposits) < 8000

-----------------------------------------------------------------------------
(* The interest a repayment charges and where it goes *)

DepositorMint == 10000
RepayerMint == 6000
RepayerCollateral == 15000

\* the balances test_repayment_updates_state_correctly works with, a tenth of each mint
RepayInit ==
    /\ VaultInit
    /\ BorrowInit
    /\ lInstance = <<>>
    /\ shares = <<>>
    /\ loanOf = <<>>
    /\ loanById = <<>>
    /\ lWhitelist = <<>>
    /\ poolToken = [a \in PoolAddresses |->
                       IF a = LenderA THEN DepositorMint
                       ELSE IF a = PoolBorrower THEN RepayerMint ELSE 0]
    /\ poolColl = [a \in PoolAddresses |->
                      IF a = PoolBorrower THEN RepayerCollateral ELSE 0]
    /\ lLast = [op |-> "init", res |-> "Ok"]

PoolInitializeAt(multipliers, caps) ==
    \E multiplier \in multipliers, cap \in caps :
        CommitL("initialize",
                pool_initialize(Lending, PoolAdmin, PoolTokenId, 500, multiplier, 15000, cap))

HalfYear == SECONDS_IN_YEAR \div 2
RepayPrincipals == {3333, 5000}

RepayNext ==
    \/ PoolInitializeAt({2000}, {10000})
    \/ PoolWhitelist({PoolAdmin})
    \/ PoolDeposit({LenderA}, {4000, 10000})
    \/ PoolBorrow({PoolBorrower}, RepayPrincipals, {7500})
    \/ PoolRepay({PoolBorrower})
    \/ PoolTick({HalfYear, 2 * HalfYear, 3 * HalfYear})

SpecRepay == RepayInit /\ [][RepayNext]_vars

\* C25: repay charges
\* interest = floor(principal * rate_bps * elapsed / (10000 * 31536000)), here
\* with elapsed a whole number k of half years, floor(principal * rate_bps * k
\* / 20000), and splits it without loss: protocol_share = floor(interest / 10),
\* reserve_share = floor(protocol_share / 2), retained_share = protocol_share -
\* reserve_share, pool_share = interest - protocol_share, the three shares
\* adding up to the interest; total_deposits grows by pool_share,
\* retained_yield by retained_share, bad_debt_reserve by reserve_share and
\* total_borrowed shrinks by principal. A principal of 5000 at 1500 bp repaid
\* after one year pays 5750, adds 675 to the deposits, 38 to the retained yield
\* and 37 to the reserve.
C25_RepayInterestSplit ==
    \A b \in DOMAIN loanOf :
        LET rep == pool_repay(Lending, b)
            loan == loanOf[b]
            elapsed == now - loan.borrow_time
            k == elapsed \div HalfYear
            interest == (loan.principal * loan.interest_rate_bps * k) \div 20000
            protocol_share == interest \div 10
            reserve_share == protocol_share \div 2
            retained_share == protocol_share - reserve_share
            pool_share == interest - protocol_share
            after == rep.w.instance["Pool"]
        IN rep.res = "Ok" =>
            /\ elapsed = k * HalfYear
            /\ rep.val = loan.principal + interest
            /\ rep.w.bal[b] = poolToken[b] - (loan.principal + interest)
            /\ pool_share + retained_share + reserve_share = interest
            /\ after.total_deposits = ThePool.total_deposits + pool_share
            /\ after.retained_yield = ThePool.retained_yield + retained_share
            /\ after.bad_debt_reserve = ThePool.bad_debt_reserve + reserve_share
            /\ after.total_borrowed = ThePool.total_borrowed - loan.principal
            /\ (loan.principal = 5000 /\ loan.interest_rate_bps = 1500 /\ k = 2) =>
                  /\ rep.val = 5750
                  /\ after.total_deposits = ThePool.total_deposits + 675
                  /\ after.retained_yield = ThePool.retained_yield + 38
                  /\ after.bad_debt_reserve = ThePool.bad_debt_reserve + 37

\* the worked example: 5000 borrowed from deposits of 10000 at 1500 bp has just
\* been repaid after one year
C25_Witness ==
    /\ PoolReady
    /\ lLast = [op |-> "repay", res |-> "Ok"]
    /\ now = SECONDS_IN_YEAR
    /\ loanOf = <<>>
    /\ ThePool.total_borrowed = 0
    /\ ThePool.total_deposits = 10675
    /\ ThePool.retained_yield = 38
    /\ ThePool.bad_debt_reserve = 37
    /\ poolToken[PoolBorrower] = RepayerMint - 750

Principals == [id \in DOMAIN loanById |-> loanById[id].principal]

\* C26: in every reachable state each borrower has at most one open loan,
\* Loan(borrower) exists exactly when LoanById(its loan_id) exists with the
\* same record, and total_borrowed equals the sum of principal over all open
\* loans; a borrow by an address that already has an open loan, with a
\* non-zero amount and collateral of a whitelisted token, fails with
\* LoanAlreadyExists and changes nothing.
C26_OneLoanPerBorrower ==
    /\ \A b \in DOMAIN loanOf :
          /\ loanOf[b].borrower = b
          /\ loanOf[b].loan_id \in DOMAIN loanById
          /\ loanById[loanOf[b].loan_id] = loanOf[b]
    /\ \A id \in DOMAIN loanById :
          /\ loanById[id].loan_id = id
          /\ loanById[id].borrower \in DOMAIN loanOf
          /\ loanOf[loanById[id].borrower] = loanById[id]
    /\ Cardinality(DOMAIN loanById) = Cardinality(DOMAIN loanOf)
    /\ PoolReady => ThePool.total_borrowed = SumOver(Principals, DOMAIN loanById)
    /\ \A b \in DOMAIN loanOf :
          \A amount \in LoanAmounts \cup {5000}, c \in {1, 1200} :
              LET again == pool_borrow(Lending, b, amount, PoolCollId, c, 1000) IN
              /\ again.res = "LoanAlreadyExists"
              /\ Host(Lending, again) = Lending

\* two loans of different principals are open, the second just taken
C26_Witness ==
    /\ PoolReady
    /\ lLast = [op |-> "borrow", res |-> "Ok"]
    /\ DOMAIN loanOf = PoolBorrowers
    /\ loanOf[PoolBorrower].principal # loanOf[LenderB].principal
    /\ ThePool.total_borrowed = 1200

-----------------------------------------------------------------------------
(* The priority withdrawal *)

PriorityCallers == {PoolAdmin, LenderA}
PriorityAmounts == {0, 1, 5, 21}

\* C27: on an initialized pool withdraw_priority(caller, amount) fails with
\* InsufficientLiquidity when amount > retained_yield and with InvalidAmount
\* when amount is 0, changing nothing; otherwise it succeeds, decreases
\* retained_yield by exactly amount and pays amount to the caller, and leaves
\* total_deposits, total_shares, total_borrowed, bad_debt_reserve, every share
\* balance and every loan unchanged.
C27_WithdrawPriority ==
    PoolReady =>
        \A caller \in PriorityCallers :
            \A amount \in PriorityAmounts \cup {ThePool.retained_yield,
                                                ThePool.retained_yield + 1} :
                LET call == withdraw_priority(Lending, caller, amount)
                    after == Host(Lending, call)
                IN /\ amount = 0 => call.res = "InvalidAmount"
                   /\ amount > ThePool.retained_yield => call.res = "InsufficientLiquidity"
                   /\ (0 < amount /\ amount <= ThePool.retained_yield) => call.res = "Ok"
                   /\ call.res # "Ok" => after = Lending
                   /\ call.res = "Ok" =>
                        /\ call.val = amount
                        /\ after.instance =
                              [lInstance EXCEPT !["Pool"].retained_yield = @ - amount]
                        /\ after.bal = [poolToken EXCEPT ![caller] = @ + amount,
                                                         ![PoolAddr] = @ - amount]
                        /\ after.cbal = poolColl
                        /\ after.shares = shares
                        /\ after.loan = loanOf
                        /\ after.loanById = loanById
                        /\ after.whitelist = lWhitelist

\* part of the retained yield has just been paid out while a loan is open
C27_Witness ==
    /\ PoolReady
    /\ lLast = [op |-> "withdraw_priority", res |-> "Ok"]
    /\ ThePool.retained_yield > 0
    /\ poolToken[PoolAdmin] = 5
    /\ loanOf # <<>>

-----------------------------------------------------------------------------
(* Repayment and liquidation in the Borrowing Vault *)

LiquidationMint == 214750000

\* the vault of test_liquidation: one borrower holding collateral, a liquidator
\* holding none
LiquidationInit ==
    /\ VaultInit
    /\ PoolInit
    /\ bInstance = <<>>
    /\ bWhitelist = <<>>
    /\ bVaultPause = <<>>
    /\ loanCounter = -1
    /\ loans = <<>>
    /\ collateral = [a \in BorrowAddresses |->
                        IF a = BorrowerA THEN LiquidationMint ELSE 0]
    /\ bLast = [op |-> "init", res |-> "Ok"]

RepaidCap == 1500    \* repay_loan is offered while amount_repaid is below this

\* repay_loan adds to amount_repaid without limit; the calls stop at RepaidCap
RepayLoanUpTo(ids, amounts) ==
    \E id \in ids, amount \in amounts :
        /\ id \in DOMAIN loans => loans[id].amount_repaid < RepaidCap
        /\ CommitB("repay_loan", repay_loan(Borrowing, id, amount))

Liquidator == BorrowerB
LiquidateAmounts == {500, 1000}

LiquidateNext ==
    \/ BorrowInitializeAt({10000, 12000}, {13000})
    \/ WhitelistCollateral({BorrowAdmin})
    \/ CreateLoanAt({BorrowerA}, {500, 1000}, {0}, {1040, 1200, 214748500})
    \/ RepayLoanUpTo(LoanIds, {500, 999})
    \/ LiquidateLoan({Liquidator}, LoanIds, LiquidateAmounts)

SpecLiquidate == LiquidationInit /\ [][LiquidateNext]_vars

\* C28: for every loan, in every state reachable by repay_loan and liquidate
\* calls, amount_repaid never exceeds principal plus the interest accrued on
\* the loan; every loan here is created with interest rate 0, so
\* amount_repaid <= principal.
C28_RepaidWithinPrincipal ==
    \A id \in DOMAIN loans :
        loans[id].interest_rate = 0 => loans[id].amount_repaid <= loans[id].principal

\* a repayment has just taken amount_repaid of a loan at rate 0 above its
\* principal
C28_Witness ==
    /\ bLast = [op |-> "repay_loan", res |-> "Ok"]
    /\ \E id \in DOMAIN loans :
          /\ loans[id].interest_rate = 0
          /\ loans[id].principal = 1000
          /\ loans[id].amount_repaid = 1499
          /\ ~loans[id].is_active

\* floor(collateral_amount * 10000 / debt) >= threshold for a positive debt,
\* decided without forming the product
AtOrAbove(collateral_amount, debt, threshold) ==
    LET whole == collateral_amount \div debt
        part == ((collateral_amount % debt) * 10000) \div debt
    IN whole > threshold \div 10000 \/ whole * 10000 + part >= threshold

\* C29: liquidate(liquidator, loan_id, x) on a stored loan succeeds only when
\* the loan is active (else LoanNotActive), 0 < x <= principal - amount_repaid
\* (else InvalidAmount), floor(collateral_amount * 10000 / debt) is below
\* liquidation_threshold_bps (else LoanHealthy) and reward = x + floor(x *
\* liquidation_bonus_bps / 10000) <= collateral_amount (else InvalidAmount);
\* on success the liquidator receives exactly reward, collateral_amount
\* decreases by reward, amount_repaid increases by x, and the loan is
\* deactivated exactly when amount_repaid >= principal; collateral_amount is
\* never negative and a loan whose health factor is at or above the threshold
\* is never liquidated.
C29_Liquidation ==
    \A id \in DOMAIN loans :
        /\ loans[id].collateral_amount >= 0
        /\ \A x \in LiquidateAmounts \cup {0, 1} :
              LET loan == loans[id]
                  call == liquidate(Borrowing, Liquidator, id, x)
                  after == Host(Borrowing, call)
                  debt == loan.principal - loan.amount_repaid
                  sized == 0 < x /\ x <= debt
                  healthy == AtOrAbove(loan.collateral_amount, debt,
                                       get_liquidation_threshold(Borrowing))
                  reward == x + ((x * get_liquidation_bonus(Borrowing)) \div 10000)
              IN /\ ~loan.is_active => call.res = "LoanNotActive"
                 /\ (loan.is_active /\ ~sized) => call.res = "InvalidAmount"
                 /\ (loan.is_active /\ sized /\ healthy) => call.res = "LoanHealthy"
                 /\ (loan.is_active /\ sized /\ ~healthy /\ reward > loan.collateral_amount)
                        => call.res = "InvalidAmount"
                 /\ call.res # "Ok" => after = Borrowing
                 /\ call.res = "Ok" =>
                      /\ loan.is_active /\ sized /\ ~healthy
                      /\ reward <= loan.collateral_amount
                      /\ after.bal[Liquidator] = collateral[Liquidator] + reward
                      /\ after.loans[id].collateral_amount = loan.collateral_amount - reward
                      /\ after.loans[id].amount_repaid = loan.amount_repaid + x
                      /\ after.loans[id].is_active
                            = ~(after.loans[id].amount_repaid >= loan.principal)
                      /\ \A o \in DOMAIN loans \ {id} : after.loans[o] = loans[o]

\* a loan of 1000 backed by 214748500 and repaid down to a debt of 500,
\* 429497 times less than its collateral, has just been liquidated: the
\* liquidator took 525 and the closed loan still records the rest
C29_Witness ==
    /\ bLast = [op |-> "liquidate", res |-> "Ok"]
    /\ \E id \in DOMAIN loans :
          /\ loans[id].principal = 1000
          /\ loans[id].amount_repaid = 1000
          /\ loans[id].collateral_amount = 214748500 - 525
          /\ collateral[Liquidator] >= 525
          /\ ~loans[id].is_active

-----------------------------------------------------------------------------
(* The admin's switches of the Borrowing Vault *)

Outsider == BorrowerB

PauseNext ==
    \/ BorrowInitialize
    \/ WhitelistCollateral({BorrowAdmin, Outsider})
    \/ SetGlobalPause({BorrowAdmin, Outsider})
    \/ SetVaultPause({BorrowAdmin, Outsider})
    \/ CreateLoan({BorrowerA}, {100}, {150})
    \/ RepayLoan(LoanIds, {60})

SpecPause == Init /\ [][PauseNext]_vars

Paused == is_global_paused(Borrowing) \/ is_vault_paused(Borrowing, CollateralToken)

\* the vault as it would be with both pauses cleared
Unpaused ==
    [Borrowing EXCEPT !.instance = [k \in DOMAIN @ \ {"GlobalPause"} |-> @[k]],
                      !.vaultPause = <<>>]

LoanProbe == {<<100, 150>>, <<100, 200>>, <<1, 2>>}

\* the calls of somebody who is not the stored admin are refused and leave
\* the vault as it was
OutsiderRefused ==
    Has(bInstance, "Admin") =>
        \A a \in BorrowAddresses \ {bInstance["Admin"]} :
            /\ borrow_whitelist_collateral(Borrowing, a, CollateralToken).res = "Unauthorized"
            /\ Host(Borrowing, borrow_whitelist_collateral(Borrowing, a, CollateralToken))
                  = Borrowing
            /\ \A paused \in BOOLEAN :
                  /\ set_global_pause(Borrowing, a, paused).res = "Unauthorized"
                  /\ Host(Borrowing, set_global_pause(Borrowing, a, paused)) = Borrowing
                  /\ set_vault_pause(Borrowing, a, CollateralToken, paused).res = "Unauthorized"
                  /\ Host(Borrowing, set_vault_pause(Borrowing, a, CollateralToken, paused))
                        = Borrowing

\* under a pause every create_loan is refused; without one a covered loan of
\* a borrower who holds the collateral is created
CreateFollowsPause ==
    is_whitelisted(Borrowing, CollateralToken) =>
        \A borrower \in {BorrowerA, BorrowerB}, p \in LoanProbe :
            LET call == create_loan(Borrowing, borrower, p[1], 500, 1000, CollateralToken, p[2])
                after == Host(Borrowing, call)
            IN /\ Paused => call.res = "Paused" /\ after = Borrowing
               /\ (~Paused /\ collateral[borrower] >= p[2]) =>
                     /\ call.res = "Ok"
                     /\ DOMAIN after.loans = DOMAIN loans \cup {after.loanCounter}
                     /\ after.loanCounter \notin DOMAIN loans

\* a repayment does what it would do with the pauses cleared, and succeeds
\* whenever it leaves the loan open or the vault holds the loan's collateral
RepayIgnoresPause ==
    \A id \in DOMAIN loans, amount \in {1, 60, 100} :
        LET call == repay_loan(Borrowing, id, amount)
            free == repay_loan(Unpaused, id, amount)
            after == Host(Borrowing, call)
        IN /\ call.res = free.res
           /\ after.loans = Host(Unpaused, free).loans
           /\ after.bal = Host(Unpaused, free).bal
           /\ after.instance = bInstance
           /\ after.vaultPause = bVaultPause
           /\ (\/ loans[id].amount_repaid + amount < loans[id].principal
               \/ collateral[BorrowingAddr] >= loans[id].collateral_amount)
                 => /\ call.res = "Ok"
                    /\ after.loans[id].amount_repaid = loans[id].amount_repaid + amount

\* no step taken under a pause adds a loan
NoLoanUnderPause == Paused => DOMAIN loans' = DOMAIN loans

\* C30: whitelist_collateral, set_global_pause and set_vault_pause called by a
\* principal different from the stored admin fail with Unauthorized and change
\* nothing; while the global pause or the pause of the collateral token is
\* set, every create_loan with that (whitelisted) collateral fails with Paused
\* and creates no loan, whereas repay_loan on existing loans still succeeds,
\* exactly as it would without the pause; after the pause is cleared
\* create_loan succeeds again.
C30_PauseSwitches ==
    /\ [](OutsiderRefused /\ CreateFollowsPause /\ RepayIgnoresPause)
    /\ [][NoLoanUnderPause]_vars

\* a repayment on the first of two loans has just gone through while both
\* pauses are set
C30_Witness ==
    /\ is_global_paused(Borrowing)
    /\ is_vault_paused(Borrowing, CollateralToken)
    /\ bLast = [op |-> "repay_loan", res |-> "Ok"]
    /\ DOMAIN loans = {1, 2}
    /\ loans[1].amount_repaid = 60
    /\ loans[1].is_active

-----------------------------------------------------------------------------
(* The identifiers the three contracts hand out *)

IdsNext ==
    \/ InitializeAdmin
    \/ CreatePlan(MaxCreated, {0, 100}, {"LumpSum"}, {BenWhole, <<>>}, {{}, {2}})
    \/ PoolInitialize({8000})
    \/ PoolWhitelist({PoolAdmin})
    \/ PoolDeposit({LenderA}, {2000})
    \/ PoolBorrow(PoolBorrowers, {400, 5000}, {1200})
    \/ PoolRepay(PoolBorrowers)
    \/ BorrowInitialize
    \/ WhitelistCollateral({BorrowAdmin})
    \/ CreateLoan({BorrowerA}, {100}, {100, 150})
    \/ RepayLoan(LoanIds, {100})

SpecIds == Init /\ [][IdsNext]_vars

StoredNextLoanId == GetOr(lInstance, "NextLoanId", 1)
StoredLoanCounter == IF loanCounter < 0 THEN 0 ELSE loanCounter

\* what each contract would answer to the next request for an identifier
IdsAsked ==
    /\ DOMAIN plans = 1..(nextPlanId - 1)
    /\ \A amount \in {0, 100}, bens \in {BenWhole, <<>>}, refused \in {{}, {2}} :
          LET call == CreationOf(amount, bens, refused)
              after == Host(Vault, call)
          IN /\ call.res = "Ok" => /\ call.id = nextPlanId
                                   /\ after.nextPlanId = nextPlanId + 1
                                   /\ DOMAIN after.plans = DOMAIN plans \cup {nextPlanId}
             /\ call.res # "Ok" => after.nextPlanId = nextPlanId /\ after.plans = plans
    /\ \A id \in DOMAIN loanById : id < StoredNextLoanId
    /\ \A b \in PoolBorrowers, amount \in {400, 5000} :
          LET call == pool_borrow(Lending, b, amount, PoolCollId, 1200, 1000)
              after == Host(Lending, call)
          IN /\ call.res = "Ok" => /\ call.val = StoredNextLoanId
                                   /\ after.instance["NextLoanId"] = StoredNextLoanId + 1
                                   /\ after.loan[b].loan_id = StoredNextLoanId
             /\ call.res # "Ok" => after.instance = lInstance /\ after.loanById = loanById
    /\ DOMAIN loans = 1..StoredLoanCounter
    /\ \A c \in {100, 150} :
          LET call == create_loan(Borrowing, BorrowerA, 100, 500, 1000, CollateralToken, c)
              after == Host(Borrowing, call)
          IN /\ call.res = "Ok" => /\ after.loanCounter = StoredLoanCounter + 1
                                   /\ DOMAIN after.loans = DOMAIN loans \cup {StoredLoanCounter + 1}
             /\ call.res # "Ok" => after.loanCounter = loanCounter /\ after.loans = loans

\* the counters move by one, exactly when a record appears under the
\* identifier the counter stood at
IdsTaken ==
    /\ nextPlanId' \in {nextPlanId, nextPlanId + 1}
    /\ nextPlanId' = nextPlanId + 1 <=> DOMAIN plans' = DOMAIN plans \cup {nextPlanId}
    /\ nextPlanId' = nextPlanId <=> DOMAIN plans' = DOMAIN plans
    /\ GetOr(lInstance', "NextLoanId", 1) \in {StoredNextLoanId, StoredNextLoanId + 1}
    /\ DOMAIN loanById' \ DOMAIN loanById =
          (IF GetOr(lInstance', "NextLoanId", 1) = StoredNextLoanId THEN {}
           ELSE {StoredNextLoanId})
    /\ (IF loanCounter' < 0 THEN 0 ELSE loanCounter') \in
          {StoredLoanCounter, StoredLoanCounter + 1}
    /\ DOMAIN loans' \ DOMAIN loans =
          (IF loanCounter' = loanCounter THEN {} ELSE {StoredLoanCounter + 1})

\* C31: identifiers are allocated consecutively and never reused: in the
\* Inheritance Vault, the Lending Pool and the Borrowing Vault the n-th
\* successful create_inheritance_plan / borrow / create_loan returns id n
\* (starting at 1); a failed call consumes no id, and an id is not handed out
\* again after its loan was repaid and removed.
C31_ConsecutiveIds == [](IdsAsked) /\ [][IdsTaken]_vars

\* the second plan and the second vault loan exist, and the pool has handed
\* out id 2 after loan 1 was repaid and removed
C31_Witness ==
    /\ DOMAIN plans = {1, 2}
    /\ DOMAIN loans = {1, 2}
    /\ DOMAIN loanById = {2}
    /\ \E b \in DOMAIN loanOf : loanOf[b].loan_id = 2
    /\ lLast = [op |-> "borrow", res |-> "Ok"]

-----------------------------------------------------------------------------
(* How many beneficiaries a plan has *)

\* C32: every stored plan has between 1 and 10 beneficiaries in every
\* reachable state, after any sequence of create_inheritance_plan,
\* add_beneficiary and remove_beneficiary calls; add_beneficiary by the owner
\* on a plan with 10 beneficiaries fails with TooManyBeneficiaries.
C32_BeneficiaryCount ==
    \A id \in DOMAIN plans :
        /\ Len(plans[id].beneficiaries) >= 1
        /\ Len(plans[id].beneficiaries) <= 10
        /\ Len(plans[id].beneficiaries) = 10 =>
              \A input \in AddInputs :
                  LET call == add_beneficiary(Vault, plans[id].owner, id, input) IN
                  /\ call.res = "TooManyBeneficiaries"
                  /\ Host(Vault, call) = Vault

\* the owner has just removed the only beneficiary of a funded plan
C32_Witness ==
    /\ last = [op |-> "remove_beneficiary", res |-> "Ok"]
    /\ 1 \in DOMAIN plans
    /\ plans[1].beneficiaries = <<>>
    /\ plans[1].total_allocation_bp = 0
    /\ plans[1].total_amount > 0
    /\ plans[1].is_active

-----------------------------------------------------------------------------
(* The utilization of the pool between borrows *)

UtilNext ==
    \/ PoolInitialize({8000})
    \/ PoolWhitelist({PoolAdmin})
    \/ PoolDeposit({LenderA}, {2000})
    \/ PoolWithdraw({LenderA}, {400})
    \/ PoolBorrow({PoolBorrower}, {1600}, {4800})
    \/ PoolRepay({PoolBorrower})
    \/ WithdrawPriority({PoolAdmin}, {5})
    \/ PoolTick({SECONDS_IN_YEAR})

SpecUtil == Init /\ [][UtilNext]_vars

Utilization ==
    IF PoolReady THEN get_utilization_bps(ThePool.total_borrowed, ThePool.total_deposits)
    ELSE 0

\* C33: the utilization bound is a global invariant: after every successful
\* operation (deposit, withdraw, borrow, repay, withdraw_priority), not only
\* directly after a borrow, floor(total_borrowed * 10000 / total_deposits) <=
\* utilization_cap_bps.
C33_UtilizationAlwaysCapped ==
    PoolReady => Utilization <= ThePool.utilization_cap_bps

\* every step other than a withdraw leaves the utilization on or below the
\* cap or does not raise it
CapKeptOutsideWithdraw ==
    lLast'.op # "withdraw" =>
        \/ Utilization' <= Utilization
        \/ Utilization' <= ThePool'.utilization_cap_bps

\* C33 as the code has it: the cap binds borrow only. A step of deposit,
\* borrow, repay or withdraw_priority leaves the utilization at or below the
\* cap or no higher than it was; withdraw is limited by the available
\* liquidity alone and can raise the utilization above the cap, up to 10000.
C33_CapBindsBorrowOnly ==
    /\ [][CapKeptOutsideWithdraw]_vars
    /\ [](PoolReady => /\ ThePool.total_borrowed <= ThePool.total_deposits
                       /\ Utilization <= 10000)

\* a withdraw has just taken the utilization above the cap
C33_Witness ==
    /\ PoolReady
    /\ lLast = [op |-> "withdraw", res |-> "Ok"]
    /\ Utilization > ThePool.utilization_cap_bps

-----------------------------------------------------------------------------
(* The creation fee of an amount whose 2% cannot be computed in 64 bits *)

\* The owner's balance in SpecFee, in units of 2^33.
FeeMint == 32212400

\* amounts on both sides of U64_MAX \div 200 = 10737418, multiples of 50 so
\* that the fee is a whole number of units
FeeAmounts == {50, 10737400, 10737450}

FeeInit ==
    /\ admin = NoAddr
    /\ nextPlanId = 1
    /\ plans = <<>>
    /\ userPlans = [a \in Addresses |-> <<>>]
    /\ claims = <<>>
    /\ triggers = <<>>
    /\ claimedPlans = [user |-> [a \in Addresses |-> <<>>], all |-> <<>>]
    /\ deactivated = <<>>
    /\ kyc = <<>>
    /\ balances = [a \in Addresses |-> IF a = OwnerAddr THEN FeeMint ELSE 0]
    /\ now = 0
    /\ last = [op |-> "init", res |-> "Ok"]
    /\ BorrowInit
    /\ PoolInit

FeeNext ==
    \/ InitializeAdmin
    \/ CreatePlan(MaxCreated, FeeAmounts, {"LumpSum"}, {BenWhole, BenHalves}, {{}, {2}})
    \/ Deposit({OwnerAddr}, FirstPlan, {10737400})
    \/ Deactivate({OwnerAddr}, {1, 2})

SpecFee == FeeInit /\ [][FeeNext]_vars

Overflows(amount) == amount > U64_MAX \div CREATION_FEE_BP

\* C34: when total_amount * 200 does not fit in 64 bits,
\* create_inheritance_plan fails with an error, creates no plan and moves no
\* tokens; it never stores a plan whose creation fee was computed as 0
\* because the multiplication overflowed.
C34_OverflowRefused ==
    /\ \A amount \in FeeAmounts, bens \in {BenWhole, BenHalves} :
          Overflows(amount) =>
              LET out == CreationOf(amount, bens, {}) IN
              /\ out.res # "Ok"
              /\ Host(Vault, out) = Vault
    /\ (last = [op |-> "create_inheritance_plan", res |-> "Ok"]) =>
          ~ Overflows(plans[nextPlanId - 1].total_amount)

\* a plan has been stored for an amount past the overflow: the whole amount
\* is in the plan and the admin has received no fee for it
C34_Witness ==
    /\ last = [op |-> "create_inheritance_plan", res |-> "Ok"]
    /\ nextPlanId = 2
    /\ plans[1].total_amount = 10737450
    /\ balances[VaultAddr] = 10737450
    /\ balances[AdminAddr] = 0
    /\ balances[OwnerAddr] = FeeMint - 10737450

-----------------------------------------------------------------------------
(* A claim refused for want of liquidity *)

ClaimOf(w, email, code) == claim_inheritance_plan(w, 1, email, code)

\* a refused claim_inheritance_plan step leaves the claim records, the plans,
\* the claimed-plan lists and the balances as they were
RefusedClaimKeepsNothing ==
    (last'.op = "claim_inheritance_plan" /\ last'.res # "Ok") =>
        UNCHANGED <<claims, plans, claimedPlans, balances>>

\* claim records are written by successful claims only, so AlreadyClaimed is
\* never the answer to an attempt that was refused
RecordsFromSuccessOnly ==
    claims' # claims => last' = [op |-> "claim_inheritance_plan", res |-> "Ok"]

\* C35: a claim_inheritance_plan call that fails, in particular with
\* InsufficientLiquidity (raised after the claim record has been written),
\* leaves no claim record and leaves the plan unchanged, so that the same
\* claim succeeds once inheritance has been triggered instead of failing with
\* AlreadyClaimed.
C35_RefusedClaimCanBeRepeated ==
    /\ [](\A email \in {"al@x", "bob@x"}, code \in {111111, 222222} :
            LET out == ClaimOf(Vault, email, code) IN
            /\ out.res # "Ok" => Host(Vault, out) = Vault
            /\ out.res = "InsufficientLiquidity" =>
                  /\ out.w.claims # claims
                  /\ ClaimOf(Host(Host(Vault, out),
                                  trigger_inheritance(Host(Vault, out), admin, 1)),
                             email, code).res = "Ok")
    /\ [][RefusedClaimKeepsNothing /\ RecordsFromSuccessOnly]_vars

\* a claim has just been refused for want of liquidity and no record of it is
\* stored
C35_Witness ==
    /\ last = [op |-> "claim_inheritance_plan", res |-> "InsufficientLiquidity"]
    /\ claims = <<>>
    /\ 1 \in DOMAIN plans
    /\ plans[1].total_loaned > 0
    /\ ~ Triggered(1)

-----------------------------------------------------------------------------
(* Two beneficiaries whose emails have the same length *)

BenTwins == <<Ben("al@x", 111111, 5000), Ben("bo@x", 333333, 5000)>>

\* "zed@" is registered nowhere
TwinEmails == {"al@x", "bo@x", "zed@", "eve@xx"}
TwinCodes  == {111111, 333333}

TwinsNext ==
    \/ InitializeAdmin
    \/ CreatePlan(MaxPlans, {100}, {"LumpSum"}, {BenTwins}, {{}})
    \/ Deposit({OwnerAddr}, FirstPlan, {50})
    \/ Withdraw({OwnerAddr}, FirstPlan, {50})
    \/ Claim(FirstPlan, TwinEmails, TwinCodes)

SpecTwins == Init /\ [][TwinsNext]_vars

\* (email, code) is an entry of the list the plans of SpecTwins are created with
TwinListed(email, code) ==
    \E k \in 1..Len(BenTwins) : BenTwins[k].email = email /\ BenTwins[k].claim_code = code

\* C36: beneficiaries of one plan registered under different emails claim
\* independently: hash_string maps different inputs to different digests, a
\* successful claim by one beneficiary never makes the first claim of another
\* beneficiary (different email, own claim code) fail with AlreadyClaimed, and
\* a caller presenting an email that is not registered never matches a
\* registered beneficiary.
C36_IndependentClaims ==
    /\ \A e1 \in TwinEmails, e2 \in TwinEmails :
          e1 # e2 => hash_string(e1) # hash_string(e2)
    /\ \A e1 \in TwinEmails, c1 \in TwinCodes :
          \A e2 \in TwinEmails, c2 \in TwinCodes :
              LET first == ClaimOf(Vault, e1, c1) IN
              (/\ TwinListed(e1, c1) /\ TwinListed(e2, c2) /\ e1 # e2
               /\ first.res = "Ok"
               /\ ClaimOf(Vault, e2, c2).res # "AlreadyClaimed")
                  => ClaimOf(Host(Vault, first), e2, c2).res # "AlreadyClaimed"
    /\ \A email \in TwinEmails, code \in TwinCodes :
          ClaimOf(Vault, email, code).res = "Ok" => TwinListed(email, code)

\* "al@x" has claimed with its code; "bo@x", who has made no claim, is
\* answered AlreadyClaimed
C36_Witness ==
    /\ last = [op |-> "claim_inheritance_plan", res |-> "Ok"]
    /\ Cardinality(DOMAIN claims) = 1
    /\ \A k \in DOMAIN claims : claims[k].beneficiary_index = 0
    /\ ClaimOf(Vault, "bo@x", 333333).res = "AlreadyClaimed"

-----------------------------------------------------------------------------
(* The loan freeze of a triggered plan *)

FreezeNext ==
    \/ InitializeAdmin
    \/ CreatePlan(MaxPlans, {100}, {"LumpSum"}, {BenHalves}, {{}})
    \/ SetLendable({OwnerAddr, OtherAddr}, FirstPlan)
    \/ Lend(FirstPlan, {40, 98})
    \/ Trigger({AdminAddr}, FirstPlan)
    \/ Liquidate({AdminAddr}, FirstPlan)
    \/ Claim(FirstPlan, {"al@x"}, {111111})
    \/ Deposit({OwnerAddr}, FirstPlan, {50})

SpecFreeze == Init /\ [][FreezeNext]_vars

\* C37: the loan freeze is permanent: in every state after a successful
\* trigger_inheritance for a plan, plan.is_lendable is false and
\* loan_freeze_active is true; no later operation, set_lendable(owner,
\* plan_id, true) included, makes the plan lendable again.
C37_FreezePermanent ==
    \A id \in DOMAIN triggers :
        /\ id \in DOMAIN plans
        /\ ~ plans[id].is_lendable
        /\ triggers[id].loan_freeze_active

\* the trigger record stays and keeps loan_freeze_active; only the plan's own
\* flag is open to the owner
C37_FreezeRecordKept ==
    \A id \in DOMAIN triggers : id \in DOMAIN plans /\ triggers[id].loan_freeze_active

\* the owner has just made the triggered plan lendable again
C37_Witness ==
    /\ last = [op |-> "set_lendable", res |-> "Ok"]
    /\ Triggered(1)
    /\ triggers[1].loan_freeze_active
    /\ plans[1].is_lendable

-----------------------------------------------------------------------------
(* The funds of a triggered plan *)

\* the total of a triggered plan goes down in claims and write-offs only
TriggeredTotalKept ==
    \A id \in DOMAIN triggers :
        (id \in DOMAIN plans /\ id \in DOMAIN plans'
         /\ plans'[id].total_amount < plans[id].total_amount)
            => last'.op \in {"claim_inheritance_plan", "liquidation_fallback"}

\* C38: once inheritance has been triggered for a plan the owner can no longer
\* take funds out of it: after trigger_inheritance, plan.total_amount
\* decreases only through claim_inheritance_plan and liquidation_fallback, and
\* a withdraw by the owner on the triggered plan fails without changing
\* total_amount or any token balance.
C38_TriggeredFundsLocked ==
    /\ [][TriggeredTotalKept]_vars
    /\ [](\A id \in DOMAIN triggers, amount \in {1, 50} :
            LET out == withdraw(Vault, OwnerAddr, id, amount) IN
            /\ out.res # "Ok"
            /\ Host(Vault, out).plans = plans
            /\ Host(Vault, out).balances = balances)

\* the owner has just withdrawn from the triggered plan
C38_Witness ==
    /\ last = [op |-> "withdraw", res |-> "Ok"]
    /\ Triggered(1)
    /\ plans[1].total_amount = 48
    /\ balances[OwnerAddr] = OwnerMint - 50

-----------------------------------------------------------------------------
(* The payouts of the beneficiaries of one plan, in either order *)

PayoutNext ==
    \/ InitializeAdmin
    \/ CreatePlan(MaxPlans, {100}, {"LumpSum"}, {BenWhole, BenHalves}, {{}})
    \/ Tick({1000, 2000})
    \/ Trigger({AdminAddr}, FirstPlan)
    \/ Claim(FirstPlan, {"al@x", "bob@x"}, {111111, 222222})
    \/ Deactivate({OwnerAddr}, FirstPlan)

SpecPayout == Init /\ [][PayoutNext]_vars

\* the plans of SpecPayout are created with 100 and nothing but claims changes
\* their total: this is the total before the first claim
StartingTotal == 100 - creation_fee(100)

\* a claim that has just been recorded lowered the plan's total by the
\* claimant's share of the starting total
PaidFromStartingTotal ==
    \A k \in (DOMAIN claims') \ (DOMAIN claims) :
        LET b == plans[1].beneficiaries[claims'[k].beneficiary_index + 1] IN
        plans[1].total_amount - plans'[1].total_amount =
            (StartingTotal * b.allocation_bp) \div 10000

\* C39: the payout of a beneficiary does not depend on the order in which the
\* beneficiaries of the plan claim: with no deposit, withdraw or write-off in
\* between, each base_payout equals floor(T * allocation_bp / 10000) for the
\* plan's total_amount T before the first claim, so beneficiaries with equal
\* allocation_bp receive equal payouts and the payouts of beneficiaries whose
\* allocations sum to 10000 add up to T (up to rounding).
C39_PayoutOrderFree ==
    /\ [][PaidFromStartingTotal]_vars
    /\ [](\A id \in DOMAIN plans :
            Cardinality(DOMAIN claims) = Len(plans[id].beneficiaries)
                => plans[id].total_amount < Len(plans[id].beneficiaries))

\* each payout is the claimant's share of the total the plan has when the
\* claim is made
PaidFromCurrentTotal ==
    \A k \in (DOMAIN claims') \ (DOMAIN claims) :
        LET b == plans[1].beneficiaries[claims'[k].beneficiary_index + 1] IN
        plans[1].total_amount - plans'[1].total_amount =
            base_payout_of(plans[1].total_amount, b.allocation_bp)

C39_PayoutOfCurrentTotal == [][PaidFromCurrentTotal]_vars

\* both beneficiaries of the 5000/5000 plan have claimed: 49 and 24 of the 98
\* were paid and 25 are left in the plan
C39_Witness ==
    /\ last = [op |-> "claim_inheritance_plan", res |-> "Ok"]
    /\ 1 \in DOMAIN plans
    /\ Len(plans[1].beneficiaries) = 2
    /\ Cardinality(DOMAIN claims) = 2
    /\ plans[1].total_amount = StartingTotal - 49 - 24

-----------------------------------------------------------------------------
(* What the pool holds against what it owes *)

\* the loan tokens the pool accounts for
Accounted ==
    (ThePool.total_deposits - ThePool.total_borrowed)
        + ThePool.retained_yield + ThePool.bad_debt_reserve

\* C40: with the loan token distinct from every collateral token, in every
\* state reached by successful deposit, withdraw, borrow, repay and
\* withdraw_priority calls the contract's loan-token balance equals
\* total_deposits - total_borrowed + retained_yield + bad_debt_reserve, so
\* every withdraw and withdraw_priority that passes its accounting check can
\* be paid.
C40_PoolSolvent ==
    /\ ~ PoolReady => poolToken[PoolAddr] = 0
    /\ PoolReady =>
          /\ poolToken[PoolAddr] = Accounted
          /\ \A d \in Lenders, n \in ShareCounts :
                LET call == pool_withdraw(Lending, d, n) IN
                call.res \in {"Ok", "InvalidAmount", "InsufficientShares",
                              "InsufficientLiquidity"}
          /\ \A amount \in 1..ThePool.retained_yield :
                withdraw_priority(Lending, PoolAdmin, amount).res = "Ok"

\* a loan has been repaid with interest, part of the retained yield has been
\* paid out and a loan is open again
C40_Witness ==
    /\ PoolReady
    /\ ThePool.total_borrowed > 0
    /\ ThePool.bad_debt_reserve > 0
    /\ ThePool.retained_yield > 0
    /\ poolToken[PoolAdmin] > 0
    /\ poolToken[PoolAddr] = Accounted

=============================================================================
